---- MODULE Spec2Model ----
(***************************************************************************)
(* Rating store (database.py), automated comparison batch                  *)
(* (benchmarking_engine.py) and blind-test vote handler (app.py) of the    *)
(* TTS benchmarking tool.                                                  *)
(*                                                                         *)
(* Ratings are Python floats in the source.  Here a rating is an integer   *)
(* number of 1/Scale ELO points, and an expected score is an integer       *)
(* number of 1/ExpScale; every division rounds to nearest.  The column     *)
(* last_updated is not modelled (no claim reads it).                       *)
(***************************************************************************)
EXTENDS Integers, Sequences, FiniteSets, TLC

\* ------------------------------------------------------------------------
\* Bounds
\* ------------------------------------------------------------------------
MaxUpdates == 2
MaxResults == 3
MaxAppResults == 2
MaxSamples == 2
NumCalls == 2

\* ------------------------------------------------------------------------
\* Fixed-point representation of the REAL columns
\* ------------------------------------------------------------------------
Scale == 100
ExpScale == 10000
Ln10 == 23026

\* ------------------------------------------------------------------------
\* Program constants
\* ------------------------------------------------------------------------
elo_k_factor == 32
initial_elo_rating == 1500
DefaultRating == 1500 * Scale

Providers == {"murf", "deepgram", "elevenlabs"}
\* the values of the TEXT column provider: the configured ids and the empty string
ProviderIds == Providers \cup {""}
KFactors == {16, elo_k_factor}
Seeds == {initial_elo_rating * Scale, 1600 * Scale}
SampleIds == {"s1", "s2"}
Latencies == {100, 200, 300}

\* BenchmarkResult, reduced to the fields update_elo_ratings reads; a failed
\* result carries latency_ms = 0, as the error_result of run_benchmark_suite
ResultRecs(providers, sample_ids, latencies) ==
    [provider : providers, sample_id : sample_ids, success : {TRUE}, latency_ms : latencies]
    \cup [provider : providers, sample_id : sample_ids, success : {FALSE}, latency_ms : {0}]

ResultLists(recs, maxlen) == UNION {[1..n -> recs] : n \in 0..maxlen}

NoRow == [exists |-> FALSE]
Row(r, g, w, l) == [exists |-> TRUE, rating |-> r, games_played |-> g, wins |-> w, losses |-> l]

\* ------------------------------------------------------------------------
\* Arithmetic of update_elo_ratings
\* ------------------------------------------------------------------------
Abs(x) == IF x < 0 THEN -x ELSE x

\* a / b rounded to the nearest integer, halves away from zero (b > 0)
RoundDiv(a, b) == IF a >= 0 THEN (2 * a + b) \div (2 * b) ELSE -((2 * (-a) + b) \div (2 * b))

RECURSIVE ExpSeries(_, _, _)
\* e^t for t >= 0 (t and the result in 1/ExpScale): sum of the Taylor terms
ExpSeries(t, term, n) ==
    IF term = 0 THEN 0
    ELSE term + ExpSeries(t, RoundDiv(term * t, n * ExpScale), n + 1)

\* 10 ** (d / 400), d in rating units, result in 1/ExpScale
Pow10Over400(d) ==
    LET t == RoundDiv(Abs(d) * Ln10, 400 * Scale)
        p == ExpSeries(t, ExpScale, 1)
    IN  IF d >= 0 THEN p ELSE RoundDiv(ExpScale * ExpScale, p)

\* 1 / (1 + 10 ** ((other - own) / 400)), in 1/ExpScale
ExpectedScore(own, other) ==
    RoundDiv(ExpScale * ExpScale, ExpScale + Pow10Over400(other - own))

\* own + k_factor * (score - expected), score being 1 (win) or 0 (loss)
NewRating(own, other, k_factor, score) ==
    own + RoundDiv(k_factor * (score * ExpScale - ExpectedScore(own, other)) * Scale, ExpScale)

\* ------------------------------------------------------------------------
\* State
\* ------------------------------------------------------------------------
VARIABLES
    elo_ratings,   \* table elo_ratings: provider -> row, or NoRow
    applied,       \* applied[w][l]: completed update_elo_ratings(w, l) calls
    ret,           \* the last operation: its arguments, what it returned and, for
                   \* a batch, the db.update_elo_ratings calls it issued
    batch_results, \* the list handed to the batch of demo.py (kept for the properties)
    calls,         \* concurrent update_elo_ratings calls: arguments, position, locals
    store0,        \* the table when the concurrent calls started
    blind_test_samples,  \* st.session_state.blind_test_samples: the providers, in label order
    blind_test_voted,    \* st.session_state.blind_test_voted
    user_votes,          \* table user_votes
    st_errors,           \* st.error calls of the last vote submission
    blind_test_language, \* st.session_state.blind_test_language
    benchmark_results,   \* table benchmark_results, in insertion order
    provider_stats,      \* table provider_stats: provider -> row, or NoStats
    now,                 \* the time (UTC), in half days
    utc_offset,          \* the host's local time minus UTC, in half days
    rate_limiter,        \* the RateLimiter object: max_requests, time_window, requests
    clock,               \* time.time(), in seconds
    accepted             \* accepted[identifier][t]: requests of identifier accepted at time t

vars == <<elo_ratings, applied, ret, batch_results, calls, store0,
          blind_test_samples, blind_test_voted, user_votes, st_errors,
          blind_test_language, benchmark_results, provider_stats, now, utc_offset,
          rate_limiter, clock, accepted>>
conc_vars == <<calls, store0, batch_results>>
session_vars == <<blind_test_samples, blind_test_voted, user_votes, st_errors, blind_test_language>>
results_vars == <<benchmark_results, provider_stats, now, utc_offset>>
limiter_vars == <<rate_limiter, clock, accepted>>

EmptyTable == [p \in ProviderIds |-> NoRow]
NoStats == [exists |-> FALSE]
EmptyStats == [p \in Providers |-> NoStats]
NoneApplied == [w \in ProviderIds |-> [l \in ProviderIds |-> 0]]
NoRet == [op |-> "none"]

MaxClock == 4
MaxLimit == 2
MaxWindow == 2

\* two session ids
Identifiers == {"session_a", "session_b"}
Times == 0..MaxClock

\* RateLimiter.__init__(max_requests, time_window); self.requests starts
\* empty, and an identifier without an entry has the empty list
RateLimiter(max_requests, time_window) ==
    [max_requests |-> max_requests, time_window |-> time_window,
     requests |-> [i \in Identifiers |-> <<>>]]

NoneAccepted == [i \in Identifiers |-> [t \in Times |-> 0]]

\* ------------------------------------------------------------------------
\* BenchmarkDatabase: the rating table
\* ------------------------------------------------------------------------

\* the providers that have a row
StoredProviders(table) == {p \in ProviderIds : table[p].exists}

\* INSERT OR REPLACE instead of INSERT OR IGNORE
init_elo_rating_replace(table, provider, rating) ==
    [table EXCEPT ![provider] = Row(rating, 0, 0, 0)]

\* INSERT OR IGNORE: provider is UNIQUE, so an existing row is left alone
init_elo_rating(table, provider, rating) ==
    IF table[provider].exists THEN table
    ELSE [table EXCEPT ![provider] = Row(rating, 0, 0, 0)]

\* what get_elo_rating returns
get_elo_rating_value(table, provider) ==
    IF table[provider].exists THEN table[provider].rating ELSE DefaultRating

\* get_elo_rating without the call of init_elo_rating
get_elo_rating_table_noinit(table, provider) == table

\* the table get_elo_rating leaves behind
get_elo_rating_table(table, provider) ==
    IF table[provider].exists THEN table ELSE init_elo_rating(table, provider, DefaultRating)

\* the winner's UPDATE writing the counters of a first win (games_played = 1,
\* wins = 1) in place of its increments
update_winner_row_overwrite(table, winner, new_rating) ==
    IF table[winner].exists
    THEN [table EXCEPT ![winner] = Row(new_rating, 1, 1, @.losses)]
    ELSE table

\* the winner's UPDATE with losses = losses + 1 in place of wins = wins + 1
update_winner_row_losses(table, winner, new_rating) ==
    IF table[winner].exists
    THEN [table EXCEPT ![winner] = Row(new_rating, @.games_played + 1, @.wins, @.losses + 1)]
    ELSE table

\* UPDATE ... SET rating = ?, games_played + 1, wins + 1 WHERE provider = ?
update_winner_row(table, winner, new_rating) ==
    IF table[winner].exists
    THEN [table EXCEPT ![winner] = Row(new_rating, @.games_played + 1, @.wins + 1, @.losses)]
    ELSE table

\* the loser's UPDATE without its WHERE clause: every row is written
update_loser_row_everyone(table, loser, new_rating) ==
    [p \in DOMAIN table |->
        IF table[p].exists
        THEN Row(new_rating, table[p].games_played + 1, table[p].wins, table[p].losses + 1)
        ELSE table[p]]

\* the loser's UPDATE without games_played = games_played + 1
update_loser_row_nogame(table, loser, new_rating) ==
    IF table[loser].exists
    THEN [table EXCEPT ![loser] = Row(new_rating, @.games_played, @.wins, @.losses + 1)]
    ELSE table

\* UPDATE ... SET rating = ?, games_played + 1, losses + 1 WHERE provider = ?
update_loser_row(table, loser, new_rating) ==
    IF table[loser].exists
    THEN [table EXCEPT ![loser] = Row(new_rating, @.games_played + 1, @.wins, @.losses + 1)]
    ELSE table

\* winner_rating + k_factor * (1 - expected_winner), without the factor k_factor
new_winner_rating_nok(winner_rating, loser_rating, k_factor) ==
    winner_rating + RoundDiv((ExpScale - ExpectedScore(winner_rating, loser_rating)) * Scale, ExpScale)

\* winner_rating + k_factor * (1 - expected_winner)
new_winner_rating(winner_rating, loser_rating, k_factor) ==
    NewRating(winner_rating, loser_rating, k_factor, 1)

\* loser_rating + k_factor * (0 - expected_winner): the winner's expectation reused
new_loser_rating_samesign(winner_rating, loser_rating, k_factor) ==
    loser_rating + RoundDiv(k_factor * (0 - ExpectedScore(winner_rating, loser_rating)) * Scale, ExpScale)

\* loser_rating + k_factor * (0 - expected_loser)
new_loser_rating(winner_rating, loser_rating, k_factor) ==
    NewRating(loser_rating, winner_rating, k_factor, 0)

\* update_elo_ratings run alone: the table it leaves and the pair it returns
update_elo_ratings(table, winner, loser, k_factor) ==
    LET winner_rating == get_elo_rating_value(table, winner)
        t1 == get_elo_rating_table(table, winner)
        loser_rating == get_elo_rating_value(t1, loser)
        t2 == get_elo_rating_table(t1, loser)
        nw == new_winner_rating(winner_rating, loser_rating, k_factor)
        nl == new_loser_rating(winner_rating, loser_rating, k_factor)
        t3 == update_winner_row(t2, winner, nw)
        t4 == update_loser_row(t3, loser, nl)
    IN  [table |-> t4, new_winner_rating |-> nw, new_loser_rating |-> nl]

NumApplied ==
    LET RECURSIVE Sum(_)
        Sum(S) == IF S = {} THEN 0
                  ELSE LET x == CHOOSE y \in S : TRUE
                       IN  applied[x[1]][x[2]] + Sum(S \ {x})
    IN  Sum(ProviderIds \X ProviderIds)

\* ------------------------------------------------------------------------
\* Operations on the store, each run alone
\* ------------------------------------------------------------------------
Call_init_elo_rating(seeds) ==
    \E provider \in Providers, rating \in seeds :
        /\ elo_ratings' = init_elo_rating(elo_ratings, provider, rating)
        /\ ret' = [op |-> "init_elo_rating", provider |-> provider, rating |-> rating]
        /\ UNCHANGED <<applied, conc_vars, session_vars, results_vars, limiter_vars>>

Call_get_elo_rating ==
    \E provider \in Providers :
        /\ elo_ratings' = get_elo_rating_table(elo_ratings, provider)
        /\ ret' = [op |-> "get_elo_rating", provider |-> provider,
                   found |-> elo_ratings[provider].exists,
                   value |-> get_elo_rating_value(elo_ratings, provider)]
        /\ UNCHANGED <<applied, conc_vars, session_vars, results_vars, limiter_vars>>

Call_update_elo_ratings(providers, k_factors) ==
    \E winner \in providers, loser \in providers, k_factor \in k_factors :
        LET u == update_elo_ratings(elo_ratings, winner, loser, k_factor)
        IN  /\ NumApplied < MaxUpdates
            /\ elo_ratings' = u.table
            /\ applied' = [applied EXCEPT ![winner][loser] = @ + 1]
            /\ ret' = [op |-> "update_elo_ratings", winner |-> winner, loser |-> loser,
                       k_factor |-> k_factor,
                       new_winner_rating |-> u.new_winner_rating,
                       new_loser_rating |-> u.new_loser_rating]
            /\ UNCHANGED <<conc_vars, session_vars, results_vars, limiter_vars>>

\* BenchmarkEngine.__init__: one init_elo_rating per provider that could be created
Engine_init ==
    \E created \in SUBSET Providers :
        /\ elo_ratings' = [p \in ProviderIds |->
                             IF p \in created
                             THEN init_elo_rating(elo_ratings, p, initial_elo_rating * Scale)[p]
                             ELSE elo_ratings[p]]
        /\ ret' = [op |-> "BenchmarkEngine"]
        /\ UNCHANGED <<applied, conc_vars, session_vars, results_vars, limiter_vars>>

\* ------------------------------------------------------------------------
\* BenchmarkEngine: the automated batch
\* ------------------------------------------------------------------------
RECURSIVE SampleOrder(_, _)
\* keys of the dict sample_results, in insertion order
SampleOrder(rs, seen) ==
    IF rs = <<>> THEN <<>>
    ELSE IF Head(rs).success /\ Head(rs).sample_id \notin seen
         THEN <<Head(rs).sample_id>> \o SampleOrder(Tail(rs), seen \cup {Head(rs).sample_id})
         ELSE SampleOrder(Tail(rs), seen)

\* the grouping without "if result.success"
SampleResults_all(rs, sample_id) ==
    SelectSeq(rs, LAMBDA r : r.sample_id = sample_id)

\* sample_results[sample_id]: the successful results of one sample, in list order
SampleResults(rs, sample_id) ==
    SelectSeq(rs, LAMBDA r : r.success /\ r.sample_id = sample_id)

\* _update_elo_pair with "score <= 0.5" for the second branch
update_elo_pair_tie(provider_a, provider_b, score2, sample_id) ==
    IF score2 > 1 THEN <<[winner |-> provider_a, loser |-> provider_b, sample_id |-> sample_id]>>
    ELSE <<[winner |-> provider_b, loser |-> provider_a, sample_id |-> sample_id]>>

\* _update_elo_pair: the db.update_elo_ratings call it makes, if any;
\* score2 is twice the score (2 = a wins, 0 = b wins, 1 = tie)
update_elo_pair(provider_a, provider_b, score2, sample_id) ==
    IF score2 > 1 THEN <<[winner |-> provider_a, loser |-> provider_b, sample_id |-> sample_id]>>
    ELSE IF score2 < 1 THEN <<[winner |-> provider_b, loser |-> provider_a, sample_id |-> sample_id]>>
    ELSE <<>>

\* the comparison with the higher latency winning
compare_pair_slower(result_a, result_b) ==
    IF result_a.latency_ms > result_b.latency_ms
    THEN update_elo_pair(result_a.provider, result_b.provider, 2, result_a.sample_id)
    ELSE IF result_b.latency_ms > result_a.latency_ms
         THEN update_elo_pair(result_a.provider, result_b.provider, 0, result_a.sample_id)
         ELSE update_elo_pair(result_a.provider, result_b.provider, 1, result_a.sample_id)

\* the body of the loop over j: one comparison
compare_pair(result_a, result_b) ==
    IF result_a.latency_ms < result_b.latency_ms
    THEN update_elo_pair(result_a.provider, result_b.provider, 2, result_a.sample_id)
    ELSE IF result_b.latency_ms < result_a.latency_ms
         THEN update_elo_pair(result_a.provider, result_b.provider, 0, result_a.sample_id)
         ELSE update_elo_pair(result_a.provider, result_b.provider, 1, result_a.sample_id)

RECURSIVE PairLoop(_, _, _)
\* for i in range(len): for j in range(i + 1, len)
PairLoop(list, i, j) ==
    IF i > Len(list) THEN <<>>
    ELSE IF j > Len(list) THEN PairLoop(list, i + 1, i + 2)
    ELSE compare_pair(list[i], list[j]) \o PairLoop(list, i, j + 1)

RECURSIVE SampleLoop(_, _)
\* for sample_id, sample_results_list in sample_results.items()
SampleLoop(rs, order) ==
    IF order = <<>> THEN <<>>
    ELSE LET list == SampleResults(rs, Head(order))
         IN  (IF Len(list) < 2 THEN <<>> ELSE PairLoop(list, 1, 2))
             \o SampleLoop(rs, Tail(order))

\* the db.update_elo_ratings calls BenchmarkEngine.update_elo_ratings makes, in order
engine_update_calls(rs) == SampleLoop(rs, SampleOrder(rs, {}))

RECURSIVE ApplyCalls(_, _)
ApplyCalls(table, cs) ==
    IF cs = <<>> THEN table
    ELSE ApplyCalls(update_elo_ratings(table, Head(cs).winner, Head(cs).loser, elo_k_factor).table,
                    Tail(cs))

RECURSIVE CountCalls(_, _)
CountCalls(counts, cs) ==
    IF cs = <<>> THEN counts
    ELSE CountCalls([counts EXCEPT ![Head(cs).winner][Head(cs).loser] = @ + 1], Tail(cs))

\* BenchmarkEngine.update_elo_ratings(rs); budget caps the number of
\* completed store updates of a run
Engine_update_elo_ratings(rs, budget) ==
    LET cs == engine_update_calls(rs)
    IN  /\ NumApplied + Len(cs) <= budget
        /\ elo_ratings' = ApplyCalls(elo_ratings, cs)
        /\ applied' = CountCalls(applied, cs)
        /\ ret' = [op |-> "engine_update_elo_ratings", issued |-> cs]
        /\ UNCHANGED <<calls, store0, session_vars, results_vars, limiter_vars>>

EngineLists == ResultLists(ResultRecs(Providers, SampleIds, Latencies), MaxResults)

\* ------------------------------------------------------------------------
\* The leaderboard
\* ------------------------------------------------------------------------

\* round(x, 1) of a / b, in tenths: a / b in units of 1/10, halves to even
RoundHalfEven(a, b) ==
    LET q == Abs(a) \div b
        r == Abs(a) % b
        m == IF 2 * r < b THEN q
             ELSE IF 2 * r > b THEN q + 1
             ELSE IF q % 2 = 0 THEN q ELSE q + 1
    IN  IF a >= 0 THEN m ELSE -m

\* SELECT * FROM elo_ratings ORDER BY rating DESC: the providers of the rows
\* in every order the statement may return them (rows of equal rating come
\* in an order SQL leaves open); the dict built from them keeps that order
get_all_elo_ratings(table) ==
    LET stored == {p \in ProviderIds : table[p].exists}
        n == Cardinality(stored)
    IN  {order \in [1..n -> stored] :
            /\ \A i \in 1..n, j \in 1..n : order[i] = order[j] => i = j
            /\ \A i \in 1..n, j \in 1..n :
                  i < j => table[order[i]].rating >= table[order[j]].rating}

\* 'win_rate': (wins / games_played * 100) if games_played > 0 else 0,
\* then round(win_rate, 1); in tenths of a percent
win_rate(row) ==
    IF row.games_played > 0 THEN RoundHalfEven(row.wins * 1000, row.games_played) ELSE 0

\* the entries with "rank": len(leaderboard) in place of len(leaderboard) + 1
leaderboard_entries_rank0(table, order) ==
    [i \in 1..Len(order) |->
        [provider |-> order[i],
         elo_rating |-> RoundHalfEven(table[order[i]].rating * 10, Scale),
         games_played |-> table[order[i]].games_played,
         wins |-> table[order[i]].wins,
         losses |-> table[order[i]].losses,
         win_rate |-> win_rate(table[order[i]]),
         rank |-> i - 1]]

\* the entries get_leaderboard appends, for the rows in the given order;
\* elo_rating is round(rating, 1), in tenths of a point
leaderboard_entries(table, order) ==
    [i \in 1..Len(order) |->
        [provider |-> order[i],
         elo_rating |-> RoundHalfEven(table[order[i]].rating * 10, Scale),
         games_played |-> table[order[i]].games_played,
         wins |-> table[order[i]].wins,
         losses |-> table[order[i]].losses,
         win_rate |-> win_rate(table[order[i]]),
         rank |-> i]]

\* the lists get_leaderboard may return: sorted(..., reverse=True) is stable,
\* so rows of equal rating stay in the order of get_all_elo_ratings
get_leaderboard(table) ==
    {leaderboard_entries(table, order) : order \in get_all_elo_ratings(table)}

Call_get_leaderboard ==
    \E leaderboard \in get_leaderboard(elo_ratings) :
        /\ ret' = [op |-> "get_leaderboard", leaderboard |-> leaderboard]
        /\ UNCHANGED <<elo_ratings, applied, conc_vars, session_vars, results_vars, limiter_vars>>

Init ==
    /\ elo_ratings = EmptyTable
    /\ applied = NoneApplied
    /\ ret = NoRet
    /\ calls = <<>>
    /\ store0 = EmptyTable
    /\ batch_results = <<>>
    /\ blind_test_samples = <<>>
    /\ blind_test_voted = FALSE
    /\ user_votes = <<>>
    /\ st_errors = 0
    /\ blind_test_language = "all"
    /\ benchmark_results = <<>>
    /\ provider_stats = EmptyStats
    /\ now = 0
    /\ utc_offset = 0
    /\ rate_limiter = RateLimiter(60, 60)
    /\ clock = 0
    /\ accepted = NoneAccepted

\* the rating store under any caller
Next ==
    \/ Call_init_elo_rating(Seeds)
    \/ Call_get_elo_rating
    \/ Call_update_elo_ratings(Providers, KFactors)
    \/ Engine_init
    \/ Call_get_leaderboard

Spec == Init /\ [][Next]_vars

\* update_elo_ratings called with any TEXT provider id, the empty one
\* included, and with a k_factor of either sign
NextAnyInput ==
    \/ Engine_init
    \/ Call_update_elo_ratings(ProviderIds, {elo_k_factor, -elo_k_factor})

SpecAnyInput == Init /\ [][NextAnyInput]_vars

\* demo.py: construct the engine, run one batch over the results of the suite
DemoEngine ==
    /\ ret.op \in {"none", "BenchmarkEngine"}
    /\ Engine_init

DemoBatch ==
    /\ ret.op \in {"none", "BenchmarkEngine"}
    /\ \E rs \in EngineLists :
          /\ Engine_update_elo_ratings(rs, MaxResults * MaxResults)
          /\ batch_results' = rs

\* the leaderboard demo.py prints after the batch
DemoLeaderboard ==
    /\ ret.op = "engine_update_elo_ratings"
    /\ Call_get_leaderboard

NextEngine ==
    \/ DemoEngine
    \/ DemoBatch
    \/ DemoLeaderboard

SpecEngine == Init /\ [][NextEngine]_vars

\* ------------------------------------------------------------------------
\* The batch when the store fails (sqlite3.Error out of connect, execute or
\* commit)
\* ------------------------------------------------------------------------

\* the tables db.update_elo_ratings can leave when it raises: nothing
\* written, the winner's row created by get_elo_rating, or both rows
\* created; the two UPDATEs are one transaction, dropped without its commit
update_elo_ratings_raises(table, winner, loser) ==
    {table,
     get_elo_rating_table(table, winner),
     get_elo_rating_table(get_elo_rating_table(table, winner), loser)}

\* the batch with the call in _update_elo_pair wrapped in try/except: pass
batch_on_error_swallow(cs, k, left) ==
    [table |-> ApplyCalls(left, SubSeq(cs, k + 1, Len(cs))),
     completed |-> SubSeq(cs, 1, k - 1) \o SubSeq(cs, k + 1, Len(cs)),
     raised |-> FALSE]

\* the k-th db.update_elo_ratings call of the batch raised and left the
\* table `left`: neither _update_elo_pair nor update_elo_ratings catches
\* anything, so the loops end there and the exception reaches the caller
batch_on_error(cs, k, left) ==
    [table |-> left, completed |-> SubSeq(cs, 1, k - 1), raised |-> TRUE]

Engine_update_elo_ratings_raises(rs, budget) ==
    LET cs == engine_update_calls(rs)
    IN  /\ NumApplied + Len(cs) <= budget
        /\ \E k \in 1..Len(cs) :
              \E left \in update_elo_ratings_raises(ApplyCalls(elo_ratings, SubSeq(cs, 1, k - 1)),
                                                     cs[k].winner, cs[k].loser) :
                  LET out == batch_on_error(cs, k, left)
                  IN  /\ elo_ratings' = out.table
                      /\ applied' = CountCalls(applied, out.completed)
                      /\ ret' = [op |-> "engine_update_elo_ratings_raised", failed_at |-> k,
                                 completed |-> out.completed, raised |-> out.raised]
        /\ UNCHANGED <<calls, store0, session_vars, results_vars, limiter_vars>>

DemoBatchRaises ==
    /\ ret.op \in {"none", "BenchmarkEngine"}
    /\ \E rs \in EngineLists :
          /\ Engine_update_elo_ratings_raises(rs, MaxResults * MaxResults)
          /\ batch_results' = rs

\* demo.py with a store that may fail during the batch
NextFail ==
    \/ DemoEngine
    \/ DemoBatch
    \/ DemoBatchRaises

SpecFail == Init /\ [][NextFail]_vars

\* ------------------------------------------------------------------------
\* app.py: the blind test
\* ------------------------------------------------------------------------
IsInjective(seq) ==
    \A i \in 1..Len(seq), j \in 1..Len(seq) : seq[i] = seq[j] => i = j

\* the successful results of the selected providers, shuffled
SampleSets == {seq \in ResultLists(Providers, MaxSamples) : IsInjective(seq)}

\* handle_blind_test_vote: its first statement calls
\* db.get_elo_rating(provider, language) with two arguments, and
\* BenchmarkDatabase.get_elo_rating takes one; the TypeError is caught by the
\* except clause, which reports it with st.error.  Nothing after the first
\* statement runs.
handle_blind_test_vote(table, votes, winner, loser, save_vote) ==
    [table |-> table, user_votes |-> votes, errors |-> 1]

RECURSIVE VoteLoop(_, _, _)
\* for loser_result in losers: handle_blind_test_vote(..., save_vote=False)
VoteLoop(acc, winner, losers) ==
    IF losers = <<>> THEN acc
    ELSE LET h == handle_blind_test_vote(acc.table, acc.user_votes, winner, Head(losers), FALSE)
         IN  VoteLoop([table |-> h.table, user_votes |-> h.user_votes,
                       errors |-> acc.errors + h.errors], winner, Tail(losers))

\* generate_blind_test_samples, from the store of session state on
Generate_blind_test_samples(languages) ==
    \E generated \in SampleSets, language \in languages :
        /\ IF Len(generated) < 1
           THEN /\ blind_test_samples' = <<>>
                /\ UNCHANGED <<blind_test_voted, blind_test_language>>
           ELSE /\ blind_test_samples' = generated
                /\ blind_test_language' = language
                /\ blind_test_voted' = FALSE
        /\ ret' = [op |-> "generate_blind_test_samples"]
        /\ UNCHANGED <<elo_ratings, applied, conc_vars, user_votes, st_errors, results_vars, limiter_vars>>

\* a page that shows the voting phase whatever blind_test_voted is
voting_phase_always(voted) == TRUE

\* if not st.session_state.blind_test_voted: the voting phase, the only one
\* that renders the Submit Vote button
voting_phase(voted) == ~voted

\* display_blind_test_samples: the Submit Vote button
Submit_vote ==
    /\ blind_test_samples # <<>>
    /\ voting_phase(blind_test_voted)
    /\ \E selected \in 1..Len(blind_test_samples) :
          LET winner == blind_test_samples[selected]
              losers == SelectSeq(blind_test_samples, LAMBDA r : r # winner)
              looped == VoteLoop([table |-> elo_ratings, user_votes |-> user_votes, errors |-> 0],
                                 winner, losers)
              saved == handle_blind_test_vote(looped.table, looped.user_votes, winner, Head(losers), TRUE)
          IN  /\ blind_test_voted' = TRUE
              /\ IF losers # <<>>
                 THEN /\ elo_ratings' = saved.table
                      /\ user_votes' = saved.user_votes
                      /\ st_errors' = looped.errors + saved.errors
                 ELSE /\ UNCHANGED <<elo_ratings, user_votes>>
                      /\ st_errors' = 0
              /\ ret' = [op |-> "submit_vote", winner |-> winner]
    /\ UNCHANGED <<applied, conc_vars, blind_test_samples, blind_test_language, results_vars,
            limiter_vars>>

\* display_blind_test_samples: the Start New Blind Test button
Start_new_blind_test ==
    /\ blind_test_samples # <<>>
    /\ blind_test_voted
    /\ blind_test_samples' = <<>>
    /\ blind_test_voted' = FALSE
    /\ ret' = [op |-> "start_new_blind_test"]
    /\ UNCHANGED <<elo_ratings, applied, conc_vars, user_votes, st_errors, blind_test_language, results_vars,
            limiter_vars>>

\* language selections of the blind test page (two of the eight)
LanguageChoices == {"Tamil", "Hindi"}
\* the language scopes: the selections and the default "all"
Languages == LanguageChoices \cup {"all"}

\* the blind test page of the application, after the engine was constructed
NextVote ==
    \/ Engine_init
    \/ Generate_blind_test_samples(LanguageChoices)
    \/ Submit_vote
    \/ Start_new_blind_test

SpecVote == Init /\ [][NextVote]_vars

\* ------------------------------------------------------------------------
\* The application: engine construction, database calls with the configured
\* seed and k-factor, a batch over the results of one sample, blind tests
\* ------------------------------------------------------------------------
AppLists == ResultLists(ResultRecs(Providers, {"s1"}, {100, 200}), MaxAppResults)

\* a batch is started only while the run's update budget is not used up
AppBatch ==
    /\ NumApplied < MaxUpdates
    /\ \E rs \in AppLists :
          /\ Engine_update_elo_ratings(rs, MaxUpdates)
          /\ UNCHANGED batch_results

NextApp ==
    \/ Call_init_elo_rating({initial_elo_rating * Scale})
    \/ Call_get_elo_rating
    \/ Call_update_elo_ratings(Providers, {elo_k_factor})
    \/ Engine_init
    \/ AppBatch
    \/ Generate_blind_test_samples({"Tamil"})
    \/ Submit_vote
    \/ Start_new_blind_test

SpecApp == Init /\ [][NextApp]_vars

\* ------------------------------------------------------------------------
\* BenchmarkDatabase: trial results, provider statistics, user votes
\* ------------------------------------------------------------------------
MaxDbOps == 3

\* the clock counts half days
TicksPerDay == 2

\* hosts on UTC-12, UTC and UTC+12
UtcOffsets == {-1, 0, 1}

\* datetime.now(): the host's local time, without a time zone
local_now == now + utc_offset

DbProviders == {"murf", "deepgram"}
DaysOld == {0, 1}

\* a BenchmarkResult as save_benchmark_result reads it
TrialRecs(providers) ==
    [provider : providers, success : {TRUE}, latency_ms : {100, 200}, file_size_bytes : {1000}]
    \cup [provider : providers, success : {FALSE}, latency_ms : {0}, file_size_bytes : {0}]

StatsRow(t, st, al, af) ==
    [exists |-> TRUE, total_tests |-> t, successful_tests |-> st,
     avg_latency |-> al, avg_file_size |-> af]

\* INSERT INTO benchmark_results ... timestamp = datetime.now()
insert_benchmark_result(rows, result, t) ==
    Append(rows, [provider |-> result.provider, success |-> result.success,
                  latency_ms |-> result.latency_ms,
                  file_size_bytes |-> result.file_size_bytes, timestamp |-> t])

\* update_provider_stats with successful_tests = stats[3] + 1 for every result
update_provider_stats_allsuccess(stats, provider, result) ==
    IF stats[provider].exists
    THEN LET old == stats[provider]
             total_tests == old.total_tests + 1
             successful_tests == old.successful_tests + 1
         IN  [stats EXCEPT ![provider] =
                 StatsRow(total_tests, successful_tests, old.avg_latency, old.avg_file_size)]
    ELSE [stats EXCEPT ![provider] = StatsRow(1, 1, 0, 0)]

\* update_provider_stats; the averages are REAL columns, kept in 1/Scale.
\* The new average is computed from successful_tests after its increment,
\* as the source does.
update_provider_stats(stats, provider, result) ==
    IF stats[provider].exists
    THEN LET old == stats[provider]
             total_tests == old.total_tests + 1
             successful_tests == old.successful_tests + (IF result.success THEN 1 ELSE 0)
             new_avg_latency ==
                 IF result.success
                 THEN IF successful_tests > 0
                      THEN RoundDiv(old.avg_latency * successful_tests + result.latency_ms * Scale,
                                    successful_tests + 1)
                      ELSE result.latency_ms * Scale
                 ELSE old.avg_latency
             new_avg_file_size ==
                 IF result.success
                 THEN IF successful_tests > 0
                      THEN RoundDiv(old.avg_file_size * successful_tests
                                        + result.file_size_bytes * Scale,
                                    successful_tests + 1)
                      ELSE result.file_size_bytes * Scale
                 ELSE old.avg_file_size
         IN  [stats EXCEPT ![provider] =
                 StatsRow(total_tests, successful_tests, new_avg_latency, new_avg_file_size)]
    ELSE [stats EXCEPT ![provider] =
             StatsRow(1, IF result.success THEN 1 ELSE 0,
                      IF result.success THEN result.latency_ms * Scale ELSE 0,
                      IF result.success THEN result.file_size_bytes * Scale ELSE 0)]

\* INSERT INTO user_votes
save_user_vote(votes, winner, loser, session_id, t) ==
    Append(votes, [winner |-> winner, loser |-> loser, vote_type |-> "user_preference",
                   session_id |-> session_id, timestamp |-> t])

\* a purge that also empties the rating table
clear_old_data_ratings(rows, ratings, days_old, t) ==
    [benchmark_results |-> SelectSeq(rows, LAMBDA r : ~(r.timestamp < t - days_old * TicksPerDay)),
     elo_ratings |-> [p \in ProviderIds |-> NoRow]]

\* DELETE FROM benchmark_results WHERE timestamp < datetime('now', '-N days'):
\* what the database holds afterwards; t is SQLite's 'now', which is UTC
clear_old_data(rows, ratings, days_old, t) ==
    [benchmark_results |-> SelectSeq(rows, LAMBDA r : ~(r.timestamp < t - days_old * TicksPerDay)),
     elo_ratings |-> ratings]

\* get_vote_statistics: wins and losses per provider, total_votes = sum of wins
get_vote_statistics(votes) ==
    LET wins == [p \in ProviderIds |-> Cardinality({i \in 1..Len(votes) : votes[i].winner = p})]
        losses == [p \in ProviderIds |-> Cardinality({i \in 1..Len(votes) : votes[i].loser = p})]
    IN  [wins |-> wins, losses |-> losses, total_votes |-> Len(votes)]

RECURSIVE insert_sorted(_, _)
insert_sorted(x, seq) ==
    IF seq = <<>> THEN <<x>>
    ELSE IF x <= Head(seq) THEN <<x>> \o seq
    ELSE <<Head(seq)>> \o insert_sorted(x, Tail(seq))

RECURSIVE sorted(_)
\* sorted(data), ascending
sorted(data) ==
    IF data = <<>> THEN <<>> ELSE insert_sorted(Head(data), sorted(Tail(data)))

\* the inner percentile without the interpolation: the lower neighbour
percentile_lower(data, p) ==
    IF data = <<>> THEN 0
    ELSE data[((p * (Len(data) - 1)) \div 100) + 1] * Scale

\* the inner function percentile(data, p) of get_latency_stats_by_provider,
\* data sorted; the value is in 1/Scale. index = (p / 100) * (len(data) - 1)
\* is p * (len(data) - 1) hundredths, so int(index) is their quotient by 100
\* and index - int(index) their remainder.
percentile(data, p) ==
    IF data = <<>> THEN 0
    ELSE LET hundredths == p * (Len(data) - 1)
             int_index == hundredths \div 100
         IN  IF hundredths % 100 = 0
             THEN data[int_index + 1] * Scale
             ELSE LET lower == data[int_index + 1]
                      upper == data[int_index + 2]
                  IN  lower * Scale + (upper - lower) * (hundredths % 100)

\* BenchmarkEngine._percentile(data, percentile): sorts, then the same steps
_percentile(data, pct) ==
    IF data = <<>> THEN 0
    ELSE LET sorted_data == sorted(data)
             hundredths == pct * (Len(sorted_data) - 1)
             int_index == hundredths \div 100
         IN  IF hundredths % 100 = 0
             THEN sorted_data[int_index + 1] * Scale
             ELSE LET lower == sorted_data[int_index + 1]
                      upper == sorted_data[int_index + 2]
                  IN  lower * Scale + (upper - lower) * (hundredths % 100)

\* get_latency_stats_by_provider: per provider, over the latencies of its
\* rows with success = 1 and latency_ms > 0 (percentiles in 1/Scale)
get_latency_stats_by_provider(rows) ==
    LET selected(p) == SelectSeq(rows, LAMBDA r :
                           r.provider = p /\ r.success /\ r.latency_ms > 0)
        latencies_sorted(p) == sorted([i \in 1..Len(selected(p)) |-> selected(p)[i].latency_ms])
        measured == {p \in Providers : selected(p) # <<>>}
    IN  [p \in measured |->
            [total_tests |-> Len(latencies_sorted(p)),
             median_latency |-> percentile(latencies_sorted(p), 50),
             p90_latency |-> percentile(latencies_sorted(p), 90),
             p95_latency |-> percentile(latencies_sorted(p), 95),
             p99_latency |-> percentile(latencies_sorted(p), 99),
             min_latency |-> latencies_sorted(p)[1],
             max_latency |-> latencies_sorted(p)[Len(latencies_sorted(p))]]]

\* get_provider_stats: total_tests and successful_tests of every row
get_provider_stats(stats) ==
    [p \in {q \in Providers : stats[q].exists} |->
        [total_tests |-> stats[p].total_tests, successful_tests |-> stats[p].successful_tests]]

\* the write operations done in a run: store updates, statistics updates,
\* votes, and half days gone by
DbWork ==
    LET RECURSIVE Sum(_)
        Sum(S) == IF S = {} THEN 0
                  ELSE LET p == CHOOSE q \in S : TRUE
                       IN  (IF provider_stats[p].exists THEN provider_stats[p].total_tests ELSE 0)
                               + Sum(S \ {p})
    IN  NumApplied + Sum(Providers) + Len(user_votes) + now

Call_save_benchmark_result(recs) ==
    \E result \in recs :
        /\ DbWork < MaxDbOps
        /\ benchmark_results' = insert_benchmark_result(benchmark_results, result, local_now)
        /\ provider_stats' = update_provider_stats(provider_stats, result.provider, result)
        /\ ret' = [op |-> "save_benchmark_result", result |-> result]
        /\ UNCHANGED <<elo_ratings, applied, conc_vars, session_vars, now, utc_offset, limiter_vars>>

Call_update_provider_stats(recs) ==
    \E result \in recs :
        /\ DbWork < MaxDbOps
        /\ provider_stats' = update_provider_stats(provider_stats, result.provider, result)
        /\ ret' = [op |-> "update_provider_stats", result |-> result]
        /\ UNCHANGED <<elo_ratings, applied, conc_vars, session_vars, benchmark_results, now, utc_offset,
            limiter_vars>>

Call_save_user_vote(providers) ==
    \E winner \in providers, loser \in providers :
        /\ DbWork < MaxDbOps
        /\ user_votes' = save_user_vote(user_votes, winner, loser, "default", local_now)
        /\ ret' = [op |-> "save_user_vote", winner |-> winner, loser |-> loser]
        /\ UNCHANGED <<elo_ratings, applied, conc_vars, blind_test_samples, blind_test_voted,
                       st_errors, blind_test_language, results_vars, limiter_vars>>

Call_clear_old_data ==
    \E days_old \in DaysOld :
        LET cleared == clear_old_data(benchmark_results, elo_ratings, days_old, now)
        IN  /\ benchmark_results' = cleared.benchmark_results
            /\ elo_ratings' = cleared.elo_ratings
            /\ ret' = [op |-> "clear_old_data", days_old |-> days_old]
            /\ UNCHANGED <<applied, conc_vars, session_vars, provider_stats, now, utc_offset, limiter_vars>>

Call_get_all_elo_ratings ==
    \E order \in get_all_elo_ratings(elo_ratings) :
        /\ ret' = [op |-> "get_all_elo_ratings", providers |-> order]
        /\ UNCHANGED <<elo_ratings, applied, conc_vars, session_vars, results_vars, limiter_vars>>

Call_get_vote_statistics ==
    /\ ret' = [op |-> "get_vote_statistics", stats |-> get_vote_statistics(user_votes)]
    /\ UNCHANGED <<elo_ratings, applied, conc_vars, session_vars, results_vars, limiter_vars>>

Call_get_latency_stats_by_provider ==
    /\ ret' = [op |-> "get_latency_stats_by_provider",
               stats |-> get_latency_stats_by_provider(benchmark_results)]
    /\ UNCHANGED <<elo_ratings, applied, conc_vars, session_vars, results_vars, limiter_vars>>

Call_get_provider_stats ==
    /\ ret' = [op |-> "get_provider_stats", stats |-> get_provider_stats(provider_stats)]
    /\ UNCHANGED <<elo_ratings, applied, conc_vars, session_vars, results_vars, limiter_vars>>

\* half a day goes by
HalfDay ==
    /\ DbWork < MaxDbOps
    /\ now' = now + 1
    /\ ret' = [op |-> "half_day"]
    /\ UNCHANGED <<elo_ratings, applied, conc_vars, session_vars, benchmark_results,
                   provider_stats, utc_offset, limiter_vars>>

DbUpdate ==
    /\ DbWork < MaxDbOps
    /\ Call_update_elo_ratings(DbProviders, {elo_k_factor})

\* the database under any caller, two providers
NextDb ==
    \/ DbUpdate
    \/ Call_save_benchmark_result(TrialRecs(DbProviders))
    \/ Call_update_provider_stats(TrialRecs(DbProviders))
    \/ Call_save_user_vote(DbProviders)
    \/ Call_clear_old_data
    \/ Call_get_all_elo_ratings
    \/ Call_get_leaderboard
    \/ Call_get_vote_statistics
    \/ Call_get_latency_stats_by_provider
    \/ HalfDay

\* an empty database on a host in any of the time zones
InitDb ==
    /\ elo_ratings = EmptyTable
    /\ applied = NoneApplied
    /\ ret = NoRet
    /\ calls = <<>>
    /\ store0 = EmptyTable
    /\ batch_results = <<>>
    /\ blind_test_samples = <<>>
    /\ blind_test_voted = FALSE
    /\ user_votes = <<>>
    /\ st_errors = 0
    /\ blind_test_language = "all"
    /\ benchmark_results = <<>>
    /\ provider_stats = EmptyStats
    /\ now = 0
    /\ utc_offset \in UtcOffsets
    /\ rate_limiter = RateLimiter(60, 60)
    /\ clock = 0
    /\ accepted = NoneAccepted

SpecDb == InitDb /\ [][NextDb]_vars

\* trial recording alone: sequential save_benchmark_result calls
NextResults ==
    \/ Call_save_benchmark_result(TrialRecs(Providers))
    \/ Call_get_provider_stats

SpecResults == Init /\ [][NextResults]_vars

\* ------------------------------------------------------------------------
\* BenchmarkEngine.run_benchmark_suite
\* ------------------------------------------------------------------------
MaxFaults == 2

\* the providers argument: a selection of configured providers, in any order
SuiteProviderLists == {seq \in ResultLists(Providers, MaxSamples) : IsInjective(seq)}
SuiteSampleLists == {<<>>, <<"s1">>, <<"s1", "s2">>}
\* an entry of voices_per_provider: no entry, an empty list, one voice
VoiceConfigs == {"absent", <<>>, <<"v1">>}
Iterations == {1, 2}

\* voices_per_provider.get(provider_id, provider.get_available_voices()[:1])
suite_voices(voices_per_provider, provider_id) ==
    IF voices_per_provider[provider_id] = "absent" THEN <<"default_voice">>
    ELSE voices_per_provider[provider_id]

\* for sample in samples: for voice in voices: for iteration in range(1, iterations + 1)
provider_invocations(provider_id, samples, voices, iterations) ==
    [n \in 1..(Len(samples) * Len(voices) * iterations) |->
        [provider |-> provider_id,
         sample_id |-> samples[((n - 1) \div (iterations * Len(voices))) + 1],
         voice |-> voices[(((n - 1) \div iterations) % Len(voices)) + 1],
         iteration |-> ((n - 1) % iterations) + 1]]

RECURSIVE suite_invocations(_, _, _, _, _)
\* the run_single_test calls of the suite, in order; a provider that is not
\* in self.providers is skipped
suite_invocations(providers, available, samples, voices_per_provider, iterations) ==
    IF providers = <<>> THEN <<>>
    ELSE (IF Head(providers) \notin available THEN <<>>
          ELSE provider_invocations(Head(providers), samples,
                                    suite_voices(voices_per_provider, Head(providers)),
                                    iterations))
         \o suite_invocations(Tail(providers), available, samples, voices_per_provider, iterations)

\* what run_single_test returns when generate_speech succeeded ("ok") or
\* returned a failure such as a timeout ("failed")
run_single_test(invocation, outcome) ==
    [provider |-> invocation.provider, sample_id |-> invocation.sample_id,
     voice |-> invocation.voice, iteration |-> invocation.iteration,
     success |-> outcome = "ok",
     latency_ms |-> IF outcome = "ok" THEN 100 ELSE 0,
     file_size_bytes |-> IF outcome = "ok" THEN 1000 ELSE 0,
     error_message |-> IF outcome = "ok" THEN "" ELSE "Request timeout"]

\* the except branch without results.append(error_result)
append_error_result_dropped(results, invocation) == results

\* the except branch: results.append(error_result)
append_error_result(results, invocation) ==
    Append(results,
           [provider |-> invocation.provider, sample_id |-> invocation.sample_id,
            voice |-> invocation.voice, iteration |-> invocation.iteration,
            success |-> FALSE, latency_ms |-> 0, file_size_bytes |-> 0,
            error_message |-> "Benchmark error: "])

RECURSIVE suite_loop(_, _, _, _)
\* the loops of run_benchmark_suite from the i-th invocation on: the results
\* list, and the database tables run_single_test saves every returned result
\* to; outcome[i] = "raised" is a run_single_test call that raises
suite_loop(invocations, outcome, i, acc) ==
    IF i > Len(invocations) THEN acc
    ELSE IF outcome[i] = "raised"
         THEN suite_loop(invocations, outcome, i + 1,
                         [acc EXCEPT !.results = append_error_result(@, invocations[i])])
         ELSE LET result == run_single_test(invocations[i], outcome[i])
              IN  suite_loop(invocations, outcome, i + 1,
                      [results |-> Append(acc.results, result),
                       benchmark_results |->
                           insert_benchmark_result(acc.benchmark_results, result, local_now),
                       provider_stats |->
                           update_provider_stats(acc.provider_stats, result.provider, result)])

\* the outcomes of n invocations of which at most MaxFaults are not "ok"
SuiteOutcomes(n) ==
    UNION {{[i \in 1..n |-> IF i \in faults THEN kinds[i] ELSE "ok"] :
               kinds \in [faults -> {"failed", "raised"}]} :
           faults \in {f \in SUBSET (1..n) : Cardinality(f) <= MaxFaults}}

\* run_benchmark_suite(providers, samples, voices_per_provider, iterations)
\* without a progress_callback, on an engine whose self.providers is `available`
Run_benchmark_suite(available) ==
    \E providers \in SuiteProviderLists, samples \in SuiteSampleLists, iterations \in Iterations :
      \E voices_per_provider \in [{providers[i] : i \in 1..Len(providers)} -> VoiceConfigs] :
        LET invocations == suite_invocations(providers, available, samples,
                                             voices_per_provider, iterations)
        IN  \E outcome \in SuiteOutcomes(Len(invocations)) :
              LET out == suite_loop(invocations, outcome, 1,
                                    [results |-> <<>>, benchmark_results |-> benchmark_results,
                                     provider_stats |-> provider_stats])
              IN  /\ benchmark_results' = out.benchmark_results
                  /\ provider_stats' = out.provider_stats
                  /\ ret' = [op |-> "run_benchmark_suite", providers |-> providers,
                             available |-> available, samples |-> samples,
                             voices_per_provider |-> voices_per_provider,
                             iterations |-> iterations, outcome |-> outcome,
                             results |-> out.results]
                  /\ UNCHANGED <<elo_ratings, applied, conc_vars, session_vars, now, utc_offset, limiter_vars>>

\* demo.py: the engine is constructed once, then the suite runs
SuiteEngine ==
    /\ ret.op = "none"
    /\ Engine_init

SuiteRun ==
    /\ ret.op = "BenchmarkEngine"
    /\ Run_benchmark_suite(StoredProviders(elo_ratings))

NextSuite ==
    \/ SuiteEngine
    \/ SuiteRun

SpecSuite == Init /\ [][NextSuite]_vars

\* ------------------------------------------------------------------------
\* The percentile functions applied to lists of latencies
\* ------------------------------------------------------------------------
MaxData == 5

LatencyValues == {10, 20, 30, 40, 50}
Percentiles == {50, 90, 95, 99}
DataLists == ResultLists(LatencyValues, MaxData)

\* one call self._percentile(latencies, p), as calculate_summary_stats makes it
Call__percentile ==
    \E data \in DataLists, pct \in Percentiles :
        /\ ret.op = "none"
        /\ ret' = [op |-> "_percentile", data |-> data, percentile |-> pct,
                   value |-> _percentile(data, pct)]
        /\ UNCHANGED <<elo_ratings, applied, conc_vars, session_vars, results_vars, limiter_vars>>

\* one call percentile(latencies_sorted, p), as get_latency_stats_by_provider
\* makes it
Call_percentile ==
    \E data \in DataLists, p \in Percentiles :
        /\ ret.op = "none"
        /\ data = sorted(data)
        /\ ret' = [op |-> "percentile", data |-> data, percentile |-> p,
                   value |-> percentile(data, p)]
        /\ UNCHANGED <<elo_ratings, applied, conc_vars, session_vars, results_vars, limiter_vars>>

NextPercentile ==
    \/ Call__percentile
    \/ Call_percentile

SpecPercentile == Init /\ [][NextPercentile]_vars

\* ------------------------------------------------------------------------
\* BenchmarkEngine.calculate_summary_stats
\* ------------------------------------------------------------------------
MaxSummary == 3

\* error messages as the providers and the suite build them, cut into
\* pieces at their colons: "Request timeout", "Error: boom",
\* "API Error 500: bad: x", "Benchmark error: "
ErrorMessages ==
    {<<"Request timeout">>, <<"Error", ":", " boom">>,
     <<"API Error 500", ":", " bad", ":", " x">>, <<"Benchmark error", ":", " ">>}

SummaryRecs(providers) ==
    [provider : providers, success : {TRUE}, latency_ms : {100, 200},
     file_size_bytes : {1000}, error_message : {<<>>}]
    \cup [provider : providers, success : {FALSE}, latency_ms : {0},
          file_size_bytes : {0}, error_message : ErrorMessages]

\* ten trials of one provider, eight of them successful
ScenarioDLists ==
    UNION {UNION {{[i \in 1..10 |->
                      IF i = a
                      THEN [provider |-> "murf", success |-> FALSE, latency_ms |-> 0,
                            file_size_bytes |-> 0, error_message |-> ma]
                      ELSE IF i = b
                      THEN [provider |-> "murf", success |-> FALSE, latency_ms |-> 0,
                            file_size_bytes |-> 0, error_message |-> mb]
                      ELSE [provider |-> "murf", success |-> TRUE,
                            latency_ms |-> 100 + 10 * (i % 2), file_size_bytes |-> 1000,
                            error_message |-> <<>>]] :
                     ma \in ErrorMessages, mb \in ErrorMessages} :
                  b \in (a + 1)..10} :
           a \in 1..9}

SummaryInputs == ResultLists(SummaryRecs(DbProviders), MaxSummary) \cup ScenarioDLists

\* result.error_message.split(':')[0] without the split: the whole message
error_type_whole(error_message) == error_message

RECURSIVE error_type(_)
\* result.error_message.split(':')[0]
error_type(error_message) ==
    IF error_message = <<>> \/ Head(error_message) = ":" THEN <<>>
    ELSE <<Head(error_message)>> \o error_type(Tail(error_message))

RECURSIVE SumSeq(_)
SumSeq(seq) == IF seq = <<>> THEN 0 ELSE Head(seq) + SumSeq(Tail(seq))

\* statistics.median, in 1/Scale
median(data) ==
    LET sd == sorted(data)
        n == Len(sd)
    IN  IF n % 2 = 1 THEN sd[(n + 1) \div 2] * Scale
        ELSE ((sd[n \div 2] + sd[(n \div 2) + 1]) * Scale) \div 2

\* calculate_summary_stats(results): one BenchmarkSummary per provider in
\* results; rates, means and percentiles in 1/Scale
calculate_summary_stats(results) ==
    [provider \in {results[i].provider : i \in 1..Len(results)} |->
        LET provider_results_list == SelectSeq(results, LAMBDA r : r.provider = provider)
            successful_results == SelectSeq(provider_results_list, LAMBDA r : r.success)
            latencies == IF successful_results # <<>>
                         THEN [i \in 1..Len(successful_results) |->
                                  successful_results[i].latency_ms]
                         ELSE <<0>>
            file_sizes == IF successful_results # <<>>
                          THEN [i \in 1..Len(successful_results) |->
                                   successful_results[i].file_size_bytes]
                          ELSE <<0>>
            errors == SelectSeq(provider_results_list,
                                LAMBDA r : ~r.success /\ r.error_message # <<>>)
            keys == {error_type(errors[i].error_message) : i \in 1..Len(errors)}
        IN  [total_tests |-> Len(provider_results_list),
             success_rate |-> RoundDiv(Len(successful_results) * 100 * Scale,
                                       Len(provider_results_list)),
             avg_latency_ms |-> RoundDiv(SumSeq(latencies) * Scale, Len(latencies)),
             median_latency_ms |-> median(latencies),
             p90_latency_ms |-> _percentile(latencies, 90),
             p95_latency_ms |-> _percentile(latencies, 95),
             p99_latency_ms |-> _percentile(latencies, 99),
             avg_file_size_bytes |-> RoundDiv(SumSeq(file_sizes) * Scale, Len(file_sizes)),
             total_errors |-> Len(provider_results_list) - Len(successful_results),
             error_types |-> [k \in keys |->
                                 Cardinality({i \in 1..Len(errors) :
                                                 error_type(errors[i].error_message) = k})]]]

\* one call of calculate_summary_stats, as demo.py makes it on the results
\* of a suite
Call_calculate_summary_stats ==
    \E results \in SummaryInputs :
        /\ ret.op = "none"
        /\ ret' = [op |-> "calculate_summary_stats", results |-> results,
                   summaries |-> calculate_summary_stats(results)]
        /\ UNCHANGED <<elo_ratings, applied, conc_vars, session_vars, results_vars, limiter_vars>>

NextSummary == Call_calculate_summary_stats

SpecSummary == Init /\ [][NextSummary]_vars

\* ------------------------------------------------------------------------
\* RateLimiter (security.py)
\* ------------------------------------------------------------------------

\* the check with > in place of >=
over_limit_gt(n, max_requests) == n > max_requests

\* if len(self.requests[identifier]) >= self.max_requests
over_limit(n, max_requests) == n >= max_requests

\* is_allowed(identifier) at current_time: the object afterwards and the
\* first component of the returned pair
is_allowed(limiter, identifier, current_time) ==
    LET cleaned == SelectSeq(limiter.requests[identifier],
                             LAMBDA req_time : current_time - req_time < limiter.time_window)
    IN  IF over_limit(Len(cleaned), limiter.max_requests)
        THEN [limiter |-> [limiter EXCEPT !.requests[identifier] = cleaned],
              allowed |-> FALSE]
        ELSE [limiter |-> [limiter EXCEPT !.requests[identifier] = Append(cleaned, current_time)],
              allowed |-> TRUE]

\* SessionManager.check_rate_limit for one of the sessions
Call_is_allowed ==
    \E identifier \in Identifiers :
        LET out == is_allowed(rate_limiter, identifier, clock)
        IN  /\ rate_limiter' = out.limiter
            /\ accepted' = IF out.allowed
                           THEN [accepted EXCEPT ![identifier][clock] = @ + 1]
                           ELSE accepted
            /\ ret' = [op |-> "is_allowed", identifier |-> identifier, allowed |-> out.allowed]
            /\ UNCHANGED <<elo_ratings, applied, conc_vars, session_vars, results_vars, clock>>

\* a second goes by
Second ==
    /\ clock < MaxClock
    /\ clock' = clock + 1
    /\ ret' = [op |-> "second"]
    /\ UNCHANGED <<elo_ratings, applied, conc_vars, session_vars, results_vars,
                   rate_limiter, accepted>>

\* a limiter made by RateLimiter(max_requests, time_window)
InitLimiter ==
    /\ elo_ratings = EmptyTable
    /\ applied = NoneApplied
    /\ ret = NoRet
    /\ calls = <<>>
    /\ store0 = EmptyTable
    /\ batch_results = <<>>
    /\ blind_test_samples = <<>>
    /\ blind_test_voted = FALSE
    /\ user_votes = <<>>
    /\ st_errors = 0
    /\ blind_test_language = "all"
    /\ benchmark_results = <<>>
    /\ provider_stats = EmptyStats
    /\ now = 0
    /\ utc_offset = 0
    /\ rate_limiter \in {RateLimiter(m, w) : m \in 1..MaxLimit, w \in 1..MaxWindow}
    /\ clock = 0
    /\ accepted = NoneAccepted

NextLimiter ==
    \/ Call_is_allowed
    \/ Second

SpecLimiter == InitLimiter /\ [][NextLimiter]_vars

\* ------------------------------------------------------------------------
\* Concurrent callers of BenchmarkDatabase.update_elo_ratings.  Every
\* sqlite3 statement sequence between connect and commit is one step; the
\* Python code between two of them holds no lock.
\* ------------------------------------------------------------------------
CallIds == 1..NumCalls

\* the tables BenchmarkEngine.__init__ can leave in a fresh database
EngineTables ==
    {[p \in ProviderIds |-> IF p \in created THEN Row(initial_elo_rating * Scale, 0, 0, 0) ELSE NoRow] :
        created \in SUBSET Providers}

InitConc ==
    /\ elo_ratings \in EngineTables
    /\ store0 = elo_ratings
    /\ calls \in [CallIds -> [winner : Providers, loser : Providers, k_factor : {elo_k_factor},
                              pc : {"select_winner"}, winner_rating : {0}, loser_rating : {0}]]
    /\ applied = NoneApplied
    /\ ret = NoRet
    /\ batch_results = <<>>
    /\ blind_test_samples = <<>>
    /\ blind_test_voted = FALSE
    /\ user_votes = <<>>
    /\ st_errors = 0
    /\ blind_test_language = "all"
    /\ benchmark_results = <<>>
    /\ provider_stats = EmptyStats
    /\ now = 0
    /\ utc_offset = 0
    /\ rate_limiter = RateLimiter(60, 60)
    /\ clock = 0
    /\ accepted = NoneAccepted

\* get_elo_rating(winner): SELECT rating ... fetchone
Conc_select_winner(c) ==
    /\ calls[c].pc = "select_winner"
    /\ calls' = [calls EXCEPT ![c] =
                    IF elo_ratings[calls[c].winner].exists
                    THEN [calls[c] EXCEPT !.winner_rating = elo_ratings[calls[c].winner].rating,
                                          !.pc = "select_loser"]
                    ELSE [calls[c] EXCEPT !.pc = "init_winner"]]
    /\ UNCHANGED <<elo_ratings, applied, ret, store0, batch_results, session_vars, results_vars,
            limiter_vars>>

\* get_elo_rating(winner): no row was found; init_elo_rating, return 1500.0
Conc_init_winner(c) ==
    /\ calls[c].pc = "init_winner"
    /\ elo_ratings' = init_elo_rating(elo_ratings, calls[c].winner, DefaultRating)
    /\ calls' = [calls EXCEPT ![c] = [calls[c] EXCEPT !.winner_rating = DefaultRating, !.pc = "select_loser"]]
    /\ UNCHANGED <<applied, ret, store0, batch_results, session_vars, results_vars, limiter_vars>>

\* get_elo_rating(loser): SELECT rating ... fetchone
Conc_select_loser(c) ==
    /\ calls[c].pc = "select_loser"
    /\ calls' = [calls EXCEPT ![c] =
                    IF elo_ratings[calls[c].loser].exists
                    THEN [calls[c] EXCEPT !.loser_rating = elo_ratings[calls[c].loser].rating,
                                          !.pc = "write"]
                    ELSE [calls[c] EXCEPT !.pc = "init_loser"]]
    /\ UNCHANGED <<elo_ratings, applied, ret, store0, batch_results, session_vars, results_vars,
            limiter_vars>>

\* get_elo_rating(loser): no row was found; init_elo_rating, return 1500.0
Conc_init_loser(c) ==
    /\ calls[c].pc = "init_loser"
    /\ elo_ratings' = init_elo_rating(elo_ratings, calls[c].loser, DefaultRating)
    /\ calls' = [calls EXCEPT ![c] = [calls[c] EXCEPT !.loser_rating = DefaultRating, !.pc = "write"]]
    /\ UNCHANGED <<applied, ret, store0, batch_results, session_vars, results_vars, limiter_vars>>

\* the two UPDATE statements and the commit, from the ratings read before
Conc_write(c) ==
    /\ calls[c].pc = "write"
    /\ LET call == calls[c]
           nw == new_winner_rating(call.winner_rating, call.loser_rating, call.k_factor)
           nl == new_loser_rating(call.winner_rating, call.loser_rating, call.k_factor)
       IN  /\ elo_ratings' = update_loser_row(update_winner_row(elo_ratings, call.winner, nw),
                                              call.loser, nl)
           /\ applied' = [applied EXCEPT ![call.winner][call.loser] = @ + 1]
    /\ calls' = [calls EXCEPT ![c] = [calls[c] EXCEPT !.pc = "done"]]
    /\ UNCHANGED <<ret, store0, batch_results, session_vars, results_vars, limiter_vars>>

NextConc ==
    \E c \in CallIds :
        \/ Conc_select_winner(c)
        \/ Conc_init_winner(c)
        \/ Conc_select_loser(c)
        \/ Conc_init_loser(c)
        \/ Conc_write(c)

SpecConc == InitConc /\ [][NextConc]_vars

\* ------------------------------------------------------------------------
\* update_elo_ratings statement by statement: its connection opens a
\* transaction at the first UPDATE (sqlite3's default isolation_level) and
\* the call may raise before the commit.  elo_ratings is the stored state,
\* what every other connection reads.
\* ------------------------------------------------------------------------
NoTransaction == [open |-> FALSE]

InitTxn ==
    /\ elo_ratings \in EngineTables
    /\ store0 = elo_ratings
    /\ calls \in [CallIds -> [winner : Providers, loser : Providers, k_factor : {elo_k_factor},
                              pc : {"select_winner"}, winner_rating : {0}, loser_rating : {0},
                              pending : {NoTransaction}]]
    /\ applied = NoneApplied
    /\ ret = NoRet
    /\ batch_results = <<>>
    /\ blind_test_samples = <<>>
    /\ blind_test_voted = FALSE
    /\ user_votes = <<>>
    /\ st_errors = 0
    /\ blind_test_language = "all"
    /\ benchmark_results = <<>>
    /\ provider_stats = EmptyStats
    /\ now = 0
    /\ utc_offset = 0
    /\ rate_limiter = RateLimiter(60, 60)
    /\ clock = 0
    /\ accepted = NoneAccepted

\* the calls whose connection holds the write lock
OpenTransactions == {c \in CallIds : calls[c].pending.open}

\* a connection in autocommit mode: the statement's write is stored at once
execute_autocommit(stored, written) ==
    [stored |-> written, pending |-> [open |-> TRUE, table |-> written]]

\* cursor.execute of an UPDATE on a connection made by
\* sqlite3.connect(self.db_path): the write stays in the connection's
\* transaction until conn.commit()
execute_in_transaction(stored, written) ==
    [stored |-> stored, pending |-> [open |-> TRUE, table |-> written]]

\* get_elo_rating's init_elo_rating writes and commits on its own connection
Txn_init_winner(c) ==
    /\ OpenTransactions = {}
    /\ Conc_init_winner(c)

Txn_init_loser(c) ==
    /\ OpenTransactions = {}
    /\ Conc_init_loser(c)

\* connect, and the winner's UPDATE
Txn_update_winner(c) ==
    /\ calls[c].pc = "write"
    /\ OpenTransactions = {}
    /\ LET call == calls[c]
           nw == new_winner_rating(call.winner_rating, call.loser_rating, call.k_factor)
           out == execute_in_transaction(elo_ratings, update_winner_row(elo_ratings, call.winner, nw))
       IN  /\ elo_ratings' = out.stored
           /\ calls' = [calls EXCEPT ![c] = [calls[c] EXCEPT !.pending = out.pending,
                                                             !.pc = "update_loser"]]
    /\ UNCHANGED <<applied, ret, store0, batch_results, session_vars, results_vars, limiter_vars>>

\* the loser's UPDATE
Txn_update_loser(c) ==
    /\ calls[c].pc = "update_loser"
    /\ LET call == calls[c]
           nl == new_loser_rating(call.winner_rating, call.loser_rating, call.k_factor)
           out == execute_in_transaction(elo_ratings,
                                         update_loser_row(call.pending.table, call.loser, nl))
       IN  /\ elo_ratings' = out.stored
           /\ calls' = [calls EXCEPT ![c] = [calls[c] EXCEPT !.pending = out.pending,
                                                             !.pc = "commit"]]
    /\ UNCHANGED <<applied, ret, store0, batch_results, session_vars, results_vars, limiter_vars>>

\* conn.commit(); conn.close()
Txn_commit(c) ==
    /\ calls[c].pc = "commit"
    /\ elo_ratings' = calls[c].pending.table
    /\ applied' = [applied EXCEPT ![calls[c].winner][calls[c].loser] = @ + 1]
    /\ calls' = [calls EXCEPT ![c] = [calls[c] EXCEPT !.pending = NoTransaction, !.pc = "done"]]
    /\ UNCHANGED <<ret, store0, batch_results, session_vars, results_vars, limiter_vars>>

\* connect, an execute or the commit raises (sqlite3.Error): the call ends
\* there, with neither commit nor close
Txn_raise(c) ==
    /\ calls[c].pc \in {"write", "update_loser", "commit"}
    /\ calls' = [calls EXCEPT ![c] = [calls[c] EXCEPT !.pc = "raised"]]
    /\ UNCHANGED <<elo_ratings, applied, ret, store0, batch_results, session_vars, results_vars,
            limiter_vars>>

\* the connection of a call that raised is collected: closing it drops its
\* transaction
Txn_close(c) ==
    /\ calls[c].pc = "raised"
    /\ calls[c].pending.open
    /\ calls' = [calls EXCEPT ![c] = [calls[c] EXCEPT !.pending = NoTransaction]]
    /\ UNCHANGED <<elo_ratings, applied, ret, store0, batch_results, session_vars, results_vars,
            limiter_vars>>

NextTxn ==
    \E c \in CallIds :
        \/ Conc_select_winner(c)
        \/ Txn_init_winner(c)
        \/ Conc_select_loser(c)
        \/ Txn_init_loser(c)
        \/ Txn_update_winner(c)
        \/ Txn_update_loser(c)
        \/ Txn_commit(c)
        \/ Txn_raise(c)
        \/ Txn_close(c)

SpecTxn == InitTxn /\ [][NextTxn]_vars

\* ------------------------------------------------------------------------
\* Properties
\* ------------------------------------------------------------------------
WinsApplied(p) ==
    LET RECURSIVE Sum(_)
        Sum(S) == IF S = {} THEN 0
                  ELSE LET l == CHOOSE y \in S : TRUE IN applied[p][l] + Sum(S \ {l})
    IN  Sum(Providers)

LossesApplied(p) ==
    LET RECURSIVE Sum(_)
        Sum(S) == IF S = {} THEN 0
                  ELSE LET w == CHOOSE y \in S : TRUE IN applied[w][p] + Sum(S \ {w})
    IN  Sum(Providers)

AllDone == calls # <<>> /\ \A c \in CallIds : calls[c].pc = "done"

RECURSIVE SerialTable(_, _, _)
\* the table after the calls run one after the other in the given order
SerialTable(table, order, i) ==
    IF i > NumCalls THEN table
    ELSE SerialTable(update_elo_ratings(table, calls[order[i]].winner, calls[order[i]].loser,
                                        calls[order[i]].k_factor).table, order, i + 1)

\* C1: when all concurrent update_elo_ratings calls have returned, the table
\* (ratings and counters of every provider) is the one some serial order of
\* the same calls produces.
C1_Serializable ==
    AllDone => \E order \in Permutations(CallIds) : elo_ratings = SerialTable(store0, order, 1)

\* C2: every rating row has games_played = wins + losses, after any
\* sequence of store calls, engine constructions, batches and votes.
C2_GamesAreWinsPlusLosses ==
    \A p \in Providers :
        elo_ratings[p].exists =>
            elo_ratings[p].games_played = elo_ratings[p].wins + elo_ratings[p].losses

C2_Witness ==
    \E p \in Providers :
        /\ elo_ratings[p].exists
        /\ elo_ratings[p].wins >= 1
        /\ elo_ratings[p].losses >= 1
        /\ elo_ratings[p].games_played = 2

\* C3: get_elo_rating of a provider without a row returns exactly 1500.0 and
\* creates the row (1500.0, 0, 0, 0) and nothing else; of a provider with a
\* row it returns the stored rating and leaves the table as it was.
C3_GetSeedsOrReads ==
    [][ret'.op = "get_elo_rating" =>
         LET p == ret'.provider
         IN  IF elo_ratings[p].exists
             THEN /\ ret'.value = elo_ratings[p].rating
                  /\ elo_ratings' = elo_ratings
             ELSE /\ ret'.value = 1500 * Scale
                  /\ elo_ratings'[p] = Row(1500 * Scale, 0, 0, 0)
                  /\ \A q \in Providers \ {p} : elo_ratings'[q] = elo_ratings[q]]_vars

C3_Witness ==
    /\ ret.op = "get_elo_rating"
    /\ ~ret.found
    /\ ret.value = 1500 * Scale
    /\ elo_ratings[ret.provider] = Row(1500 * Scale, 0, 0, 0)

\* C4: every provider's wins equal the number of completed updates it won,
\* its losses the number it lost and its games_played their sum; so N
\* applications of update_elo_ratings(A, B), A # B, raise A's games_played
\* and wins by N and losses by 0, and B's games_played and losses by N and
\* wins by 0.
C4_MonotonicCounters ==
    \A p \in Providers :
        IF elo_ratings[p].exists
        THEN /\ elo_ratings[p].wins = WinsApplied(p)
             /\ elo_ratings[p].losses = LossesApplied(p)
             /\ elo_ratings[p].games_played = WinsApplied(p) + LossesApplied(p)
        ELSE WinsApplied(p) = 0 /\ LossesApplied(p) = 0

C4_Witness ==
    \E a \in Providers, b \in Providers :
        /\ a # b
        /\ applied[a][b] = MaxUpdates
        /\ MaxUpdates >= 2
        /\ elo_ratings[a].exists /\ elo_ratings[b].exists
        /\ elo_ratings[a].games_played = MaxUpdates /\ elo_ratings[a].wins = MaxUpdates
        /\ elo_ratings[a].losses = 0
        /\ elo_ratings[b].games_played = MaxUpdates /\ elo_ratings[b].losses = MaxUpdates
        /\ elo_ratings[b].wins = 0

\* a provider rated 1500 with no games: its row, or no row yet
SeedState(row) == row = NoRow \/ row = Row(1500 * Scale, 0, 0, 0)

\* C5: from X and Y both rated 1500 with no games, update_elo_ratings(X, Y, 32)
\* leaves X at 1516.0 and Y at 1484.0 with one game each and returns
\* (1516.0, 1484.0).
C5_ScenarioA ==
    [][(/\ ret'.op = "update_elo_ratings"
        /\ ret'.k_factor = 32
        /\ ret'.winner # ret'.loser
        /\ SeedState(elo_ratings[ret'.winner])
        /\ SeedState(elo_ratings[ret'.loser]))
       => /\ elo_ratings'[ret'.winner] = Row(1516 * Scale, 1, 1, 0)
          /\ elo_ratings'[ret'.loser] = Row(1484 * Scale, 1, 0, 1)
          /\ ret'.new_winner_rating = 1516 * Scale
          /\ ret'.new_loser_rating = 1484 * Scale]_vars

C5_Witness ==
    /\ ret.op = "update_elo_ratings"
    /\ ret.k_factor = 32
    /\ ret.winner # ret.loser
    /\ elo_ratings[ret.winner] = Row(1516 * Scale, 1, 1, 0)
    /\ elo_ratings[ret.loser] = Row(1484 * Scale, 1, 0, 1)
    /\ ret.new_winner_rating = 1516 * Scale
    /\ ret.new_loser_rating = 1484 * Scale

\* C6: one update_elo_ratings of distinct providers moves as much rating to
\* the winner as it takes from the loser: the sum of the two ratings is the
\* same before and after, up to the rounding of the arithmetic (one unit of
\* 1/Scale point).
C6_Conservation ==
    [][(ret'.op = "update_elo_ratings" /\ ret'.winner # ret'.loser) =>
         LET w == ret'.winner
             l == ret'.loser
             gain == elo_ratings'[w].rating - get_elo_rating_value(elo_ratings, w)
             loss == get_elo_rating_value(elo_ratings, l) - elo_ratings'[l].rating
         IN  /\ gain > 0
             /\ loss > 0
             /\ Abs(gain - loss) <= 1]_vars

C6_Witness ==
    /\ ret.op = "update_elo_ratings"
    /\ ret.winner # ret.loser
    /\ ret.k_factor = 16
    /\ elo_ratings[ret.winner].games_played = 2
    /\ elo_ratings[ret.winner].rating + elo_ratings[ret.loser].rating # 2 * 1500 * Scale

\* C7: init_elo_rating of a provider that has a row changes nothing,
\* whatever seed it is given and whatever updates came before; of a
\* provider without a row it creates (seed, 0, 0, 0).  The constructor of
\* BenchmarkEngine, which calls it for every provider, changes no existing
\* row either.
C7_InitIdempotent ==
    [][/\ ret'.op = "init_elo_rating" =>
            LET p == ret'.provider
            IN  /\ \A q \in Providers \ {p} : elo_ratings'[q] = elo_ratings[q]
                /\ IF elo_ratings[p].exists
                   THEN elo_ratings'[p] = elo_ratings[p]
                   ELSE elo_ratings'[p] = Row(ret'.rating, 0, 0, 0)
       /\ ret'.op = "BenchmarkEngine" =>
            \A q \in Providers :
                IF elo_ratings[q].exists
                THEN elo_ratings'[q] = elo_ratings[q]
                ELSE elo_ratings'[q] \in {NoRow, Row(initial_elo_rating * Scale, 0, 0, 0)}]_vars

C7_Witness ==
    /\ ret.op = "init_elo_rating"
    /\ elo_ratings[ret.provider].exists
    /\ elo_ratings[ret.provider].games_played > 0
    /\ elo_ratings[ret.provider].rating # ret.rating

BatchDone == ret.op = "engine_update_elo_ratings"

\* positions in rs of the successful results of one sample
Successful(rs, sample_id) ==
    {i \in 1..Len(rs) : rs[i].success /\ rs[i].sample_id = sample_id}

\* unordered pairs of successful results of one sample, as <<i, j>> with i < j
ResultPairs(rs, sample_id) ==
    {ij \in Successful(rs, sample_id) \X Successful(rs, sample_id) : ij[1] < ij[2]}

DistinctLatencies(rs, sample_id) ==
    \A ij \in ResultPairs(rs, sample_id) : rs[ij[1]].latency_ms # rs[ij[2]].latency_ms

\* the pairs whose strictly faster result is w's and whose slower one is l's
PairsWonBy(rs, sample_id, w, l) ==
    {ij \in ResultPairs(rs, sample_id) :
        \/ /\ rs[ij[1]].latency_ms < rs[ij[2]].latency_ms
           /\ rs[ij[1]].provider = w /\ rs[ij[2]].provider = l
        \/ /\ rs[ij[2]].latency_ms < rs[ij[1]].latency_ms
           /\ rs[ij[2]].provider = w /\ rs[ij[1]].provider = l}

IssuedFor(cs, sample_id) == SelectSeq(cs, LAMBDA c : c.sample_id = sample_id)

IssuedCount(cs, sample_id, w, l) ==
    Cardinality({k \in 1..Len(cs) :
                    cs[k] = [winner |-> w, loser |-> l, sample_id |-> sample_id]})

\* C8: a batch issues, for every sample whose N successful results have
\* pairwise distinct latencies, exactly C(N,2) store updates, one per
\* unordered pair of those results, the faster result's provider being the
\* winner; failed results are in no pair.
C8_AllPairsOnce ==
    BatchDone =>
        \A sid \in SampleIds :
            DistinctLatencies(batch_results, sid) =>
                LET n == Cardinality(Successful(batch_results, sid))
                IN  /\ 2 * Len(IssuedFor(ret.issued, sid)) = n * (n - 1)
                    /\ \A w \in Providers, l \in Providers :
                          IssuedCount(ret.issued, sid, w, l)
                              = Cardinality(PairsWonBy(batch_results, sid, w, l))

C8_Witness ==
    /\ BatchDone
    /\ \E sid \in SampleIds :
          /\ DistinctLatencies(batch_results, sid)
          /\ Cardinality(Successful(batch_results, sid)) = 3
          /\ Len(IssuedFor(ret.issued, sid)) = 3

\* the pairs of successful results of one sample with equal latency
TiedPairs(rs, sample_id) ==
    {ij \in ResultPairs(rs, sample_id) : rs[ij[1]].latency_ms = rs[ij[2]].latency_ms}

\* C9: a pair of successful results with equal latency causes no store
\* write: the batch issues one update per pair that is not tied and none
\* for a tied pair, and a batch all of whose pairs are tied leaves the
\* table as it was, rows of the tied providers that did not exist included.
C9_TieWritesNothing ==
    [][ret'.op = "engine_update_elo_ratings" =>
         /\ \A sid \in SampleIds :
               Len(IssuedFor(ret'.issued, sid))
                   = Cardinality(ResultPairs(batch_results', sid) \ TiedPairs(batch_results', sid))
         /\ (\A sid \in SampleIds :
                ResultPairs(batch_results', sid) = TiedPairs(batch_results', sid))
            => /\ ret'.issued = <<>>
               /\ elo_ratings' = elo_ratings]_vars

C9_Witness ==
    /\ BatchDone
    /\ \E sid \in SampleIds :
          \E ij \in TiedPairs(batch_results, sid) :
              /\ batch_results[ij[1]].provider # batch_results[ij[2]].provider
              /\ ~elo_ratings[batch_results[ij[1]].provider].exists
              /\ ~elo_ratings[batch_results[ij[2]].provider].exists
    /\ ret.issued = <<>>

\* the lists that hold the same results as rs in another order
Reorderings(rs) ==
    {[i \in 1..Len(rs) |-> rs[f[i]]] : f \in Permutations(1..Len(rs))}

WinnerLoser(cs) == [k \in 1..Len(cs) |-> <<cs[k].winner, cs[k].loser>>]

\* C10: a batch over the same results in any other list order issues the
\* same sequence of (winner, loser) updates and ends with the same table.
C10_OrderIndependent ==
    [][ret'.op = "engine_update_elo_ratings" =>
         \A rs \in Reorderings(batch_results') :
             /\ WinnerLoser(engine_update_calls(rs)) = WinnerLoser(ret'.issued)
             /\ ApplyCalls(elo_ratings, engine_update_calls(rs)) = elo_ratings']_vars

\* E2E scenario B: three providers, one successful result each on one
\* sample, at 100, 200 and 300 ms, in any list order
ScenarioB(rs) ==
    /\ Len(rs) = 3
    /\ \A i \in 1..3 : rs[i].success /\ rs[i].sample_id = rs[1].sample_id
    /\ {rs[i].provider : i \in 1..3} = Providers
    /\ {rs[i].latency_ms : i \in 1..3} = {100, 200, 300}

ProviderAt(rs, latency_ms) ==
    (CHOOSE i \in 1..Len(rs) : rs[i].latency_ms = latency_ms)

SeedRow == Row(initial_elo_rating * Scale, 0, 0, 0)

\* C11: with every provider at the seed rating (its row missing, or stored
\* at 1500 with no games), a batch over scenario B issues exactly three
\* store updates, A beats B, A beats C and B beats C (A at 100 ms, B at
\* 200 ms, C at 300 ms), and every leaderboard of the table it leaves lists
\* A, B, C in that order with ranks 1, 2, 3.
C11_ScenarioB ==
    [][(/\ ret'.op = "engine_update_elo_ratings"
        /\ ScenarioB(batch_results')
        /\ \A p \in Providers : elo_ratings[p] \in {NoRow, SeedRow}) =>
          LET rs == batch_results'
              A == rs[ProviderAt(rs, 100)].provider
              B == rs[ProviderAt(rs, 200)].provider
              C == rs[ProviderAt(rs, 300)].provider
          IN  /\ Len(ret'.issued) = 3
              /\ {WinnerLoser(ret'.issued)[k] : k \in 1..3} = {<<A, B>>, <<A, C>>, <<B, C>>}
              /\ applied' = [w \in ProviderIds |-> [l \in ProviderIds |->
                               IF <<w, l>> \in {<<A, B>>, <<A, C>>, <<B, C>>} THEN 1 ELSE 0]]
              /\ \A leaderboard \in get_leaderboard(elo_ratings') :
                    /\ Len(leaderboard) = 3
                    /\ leaderboard[1].provider = A /\ leaderboard[1].rank = 1
                    /\ leaderboard[2].provider = B /\ leaderboard[2].rank = 2
                    /\ leaderboard[3].provider = C /\ leaderboard[3].rank = 3]_vars

C11_Witness ==
    /\ ret.op = "get_leaderboard"
    /\ ScenarioB(batch_results)
    /\ Len(ret.leaderboard) = 3
    /\ ret.leaderboard[1].provider = batch_results[ProviderAt(batch_results, 100)].provider
    /\ ret.leaderboard[1].wins = 2
    /\ ret.leaderboard[3].losses = 2

\* counters of a provider, 0 while it has no row
GamesOf(table, p) == IF table[p].exists THEN table[p].games_played ELSE 0
WinsOf(table, p) == IF table[p].exists THEN table[p].wins ELSE 0
LossesOf(table, p) == IF table[p].exists THEN table[p].losses ELSE 0

\* the providers of the comparison set other than the voted one
LosersOf(samples, winner) == {samples[i] : i \in 1..Len(samples)} \ {winner}

rating_state(table, provider, language) == table[provider]

OneEntryPerRow(table, leaderboard) ==
    /\ Len(leaderboard) = Cardinality(StoredProviders(table))
    /\ {leaderboard[i].provider : i \in 1..Len(leaderboard)} = StoredProviders(table)
    /\ \A i \in 1..Len(leaderboard) : leaderboard[i].rank = i

\* C15 as stated: in every reachable state every list get_leaderboard may
\* return has one entry per stored row, ranks equal to positions, and
\* ratings strictly descending.
C15_StrictlyDescending ==
    \A leaderboard \in get_leaderboard(elo_ratings) :
        /\ OneEntryPerRow(elo_ratings, leaderboard)
        /\ \A i \in 1..Len(leaderboard), j \in 1..Len(leaderboard) :
              i < j => elo_ratings[leaderboard[i].provider].rating
                           > elo_ratings[leaderboard[j].provider].rating

\* C15 amended: in every reachable state every list get_leaderboard may
\* return has one entry per stored row, ranks equal to positions, and
\* ratings descending, rows of equal rating following one another in
\* either order.
C15_Descending ==
    \A leaderboard \in get_leaderboard(elo_ratings) :
        /\ OneEntryPerRow(elo_ratings, leaderboard)
        /\ \A i \in 1..Len(leaderboard), j \in 1..Len(leaderboard) :
              i < j => /\ elo_ratings[leaderboard[i].provider].rating
                             >= elo_ratings[leaderboard[j].provider].rating
                       /\ leaderboard[i].elo_rating >= leaderboard[j].elo_rating

C15_Witness ==
    /\ ret.op = "get_leaderboard"
    /\ ret.leaderboard \in get_leaderboard(elo_ratings)
    /\ Len(ret.leaderboard) = 3
    /\ ret.leaderboard[1].elo_rating > ret.leaderboard[2].elo_rating
    /\ ret.leaderboard[2].elo_rating = ret.leaderboard[3].elo_rating
    /\ ret.leaderboard[3].rank = 3

\* the operations C16 names as leaving the rating rows alone
RatingFrameOps ==
    {"save_benchmark_result", "update_provider_stats", "save_user_vote", "clear_old_data",
     "get_all_elo_ratings", "get_leaderboard", "get_vote_statistics",
     "get_latency_stats_by_provider"}

\* C16: no step deletes a rating row; a step that changes the rating or a
\* counter of an existing row is an update_elo_ratings call; and each of
\* save_benchmark_result, update_provider_stats, save_user_vote,
\* clear_old_data, get_all_elo_ratings, get_leaderboard,
\* get_vote_statistics and get_latency_stats_by_provider leaves the whole
\* rating table as it was.
C16_RatingsOnlyByUpdate ==
    [][/\ \A p \in ProviderIds : elo_ratings[p].exists => elo_ratings'[p].exists
       /\ (\E p \in ProviderIds : elo_ratings[p].exists /\ elo_ratings'[p] # elo_ratings[p])
             => ret'.op = "update_elo_ratings"
       /\ ret'.op \in RatingFrameOps => elo_ratings' = elo_ratings]_vars

C16_Witness ==
    /\ ret.op = "clear_old_data"
    /\ benchmark_results = <<>>
    /\ \E p \in Providers : provider_stats[p].exists
    /\ \E p \in Providers : elo_ratings[p].exists /\ elo_ratings[p].games_played > 0

\* the trials recorded for a provider, and the successful ones among them
TrialsOf(rows, p) == {i \in 1..Len(rows) : rows[i].provider = p}
SuccessfulTrialsOf(rows, p) == {i \in TrialsOf(rows, p) : rows[i].success}

\* C20: after any sequence of save_benchmark_result calls, run one after
\* the other, a provider has a provider_stats row iff it has a recorded
\* trial, its total_tests is the number of its recorded trials, its
\* successful_tests the number of the successful ones, and
\* successful_tests <= total_tests.
C20_StatsCountTrials ==
    \A p \in Providers :
        IF TrialsOf(benchmark_results, p) = {}
        THEN ~provider_stats[p].exists
        ELSE /\ provider_stats[p].exists
             /\ provider_stats[p].total_tests = Cardinality(TrialsOf(benchmark_results, p))
             /\ provider_stats[p].successful_tests
                    = Cardinality(SuccessfulTrialsOf(benchmark_results, p))
             /\ provider_stats[p].successful_tests <= provider_stats[p].total_tests

C20_Witness ==
    /\ ret.op = "save_benchmark_result"
    /\ \E p \in Providers :
          /\ provider_stats[p].exists
          /\ provider_stats[p].total_tests = 3
          /\ provider_stats[p].successful_tests = 1

\* C17: an update_elo_ratings call with an empty provider id or a negative
\* k_factor creates no rating row and changes none.
C17_MalformedRejected ==
    [][(/\ ret'.op = "update_elo_ratings"
        /\ (ret'.winner = "" \/ ret'.loser = "" \/ ret'.k_factor < 0))
          => elo_ratings' = elo_ratings]_vars

SuiteCombinations(call) ==
    {c \in [provider : {call.providers[i] : i \in 1..Len(call.providers)} \cap call.available,
            sample_id : {call.samples[i] : i \in 1..Len(call.samples)},
            voice : {"default_voice", "v1"},
            iteration : 1..call.iterations] :
        \E k \in 1..Len(suite_voices(call.voices_per_provider, c.provider)) :
            suite_voices(call.voices_per_provider, c.provider)[k] = c.voice}

ResultsFor(results, c) ==
    {i \in 1..Len(results) :
        /\ results[i].provider = c.provider /\ results[i].sample_id = c.sample_id
        /\ results[i].voice = c.voice /\ results[i].iteration = c.iteration}

\* C19: run_benchmark_suite, given distinct providers, samples and voices,
\* returns exactly one result for every (available provider, sample, voice,
\* iteration) combination and none for anything else; the result of an
\* invocation that failed or raised has success = false and a non-empty
\* error message, and a successful one has success = true; so a failure
\* never ends the batch.
C19_OneResultPerCombination ==
    (ret.op = "run_benchmark_suite") =>
        /\ \A c \in SuiteCombinations(ret) : Cardinality(ResultsFor(ret.results, c)) = 1
        /\ Len(ret.results) = Cardinality(SuiteCombinations(ret))
        /\ Len(ret.results) = Len(ret.outcome)
        /\ \A i \in 1..Len(ret.results) :
              /\ ret.results[i].success <=> ret.outcome[i] = "ok"
              /\ ~ret.results[i].success => ret.results[i].error_message # ""

C19_Witness ==
    /\ ret.op = "run_benchmark_suite"
    /\ Len(ret.results) = 8
    /\ ret.outcome[1] = "raised"
    /\ ret.outcome[2] = "failed"
    /\ ret.results[8].success
    /\ Len(benchmark_results) = 7

RECURSIVE SumLatency(_, _)
SumLatency(rows, S) ==
    IF S = {} THEN 0
    ELSE LET i == CHOOSE j \in S : TRUE
         IN  rows[i].latency_ms + SumLatency(rows, S \ {i})

RECURSIVE SumFileSize(_, _)
SumFileSize(rows, S) ==
    IF S = {} THEN 0
    ELSE LET i == CHOOSE j \in S : TRUE
         IN  rows[i].file_size_bytes + SumFileSize(rows, S \ {i})

\* |avg - total / n| is at most 0.01, avg in 1/Scale
IsMeanOf(avg, total, n) ==
    /\ avg * n - total * Scale <= n
    /\ total * Scale - avg * n <= n

\* C21: after any sequence of save_benchmark_result calls, run one after
\* the other, the avg_latency and the avg_file_size of a provider that has
\* a successful trial are the arithmetic means of latency_ms and of
\* file_size_bytes over its successful trials recorded so far.
C21_AveragesAreMeans ==
    \A p \in Providers :
        LET S == SuccessfulTrialsOf(benchmark_results, p)
        IN  S # {} =>
               /\ IsMeanOf(provider_stats[p].avg_latency,
                           SumLatency(benchmark_results, S), Cardinality(S))
               /\ IsMeanOf(provider_stats[p].avg_file_size,
                           SumFileSize(benchmark_results, S), Cardinality(S))

\* the elements of a list
Elements(seq) == {seq[i] : i \in 1..Len(seq)}

\* C22: on a non-empty list, with index = p/100 * (n - 1) over the sorted
\* data, percentile returns the element at index when index is integral and
\* otherwise the linear interpolation between its floor and ceil neighbours;
\* for 10, 20, 30, 40, 50 it gives p50 = 30 and p90 = 46; the result lies
\* between the minimum and the maximum of the data.
C22_Percentile ==
    (ret.op \in {"_percentile", "percentile"} /\ ret.data # <<>>) =>
        LET s == sorted(ret.data)
            n == Len(s)
            below == {i \in 0..(n - 1) : 100 * i <= ret.percentile * (n - 1)}
            floor == CHOOSE i \in below : \A j \in below : j <= i
            integral == 100 * floor = ret.percentile * (n - 1)
        IN  /\ integral => ret.value = s[floor + 1] * Scale
            /\ ~integral =>
                   100 * (ret.value - s[floor + 1] * Scale)
                       = (s[floor + 2] - s[floor + 1]) * (ret.percentile * (n - 1) - 100 * floor) * Scale
            /\ (s = <<10, 20, 30, 40, 50>> /\ ret.percentile = 50) => ret.value = 30 * Scale
            /\ (s = <<10, 20, 30, 40, 50>> /\ ret.percentile = 90) => ret.value = 46 * Scale
            /\ \A x \in Elements(ret.data) :
                   /\ (\A y \in Elements(ret.data) : x <= y) => x * Scale <= ret.value
                   /\ (\A y \in Elements(ret.data) : x >= y) => ret.value <= x * Scale

C22_Witness ==
    /\ ret.op = "_percentile"
    /\ ret.data = <<50, 10, 30, 20, 40>>
    /\ ret.percentile = 90
    /\ ret.value = 46 * Scale

\* k is the text of msg before its first colon
IsPrefixBeforeColon(k, msg) ==
    /\ Len(k) <= Len(msg)
    /\ \A i \in 1..Len(k) : k[i] = msg[i] /\ k[i] # ":"
    /\ Len(k) < Len(msg) => msg[Len(k) + 1] = ":"

RECURSIVE SumCounts(_, _)
SumCounts(f, S) ==
    IF S = {} THEN 0
    ELSE LET k == CHOOSE x \in S : TRUE IN f[k] + SumCounts(f, S \ {k})

\* C23: calculate_summary_stats gives, for every provider with a result,
\* total_tests = the number of its results, success_rate =
\* successes / total_tests * 100, total_errors = total_tests - successes,
\* and an error_types histogram whose keys are the texts before the first
\* colon of its failed results' messages, each counted once per such
\* result, the counts summing to total_errors; ten results with eight
\* successes and two failures of distinct prefixes give success_rate 80.0,
\* total_errors 2 and two keys.
C23_SummaryStats ==
    (ret.op = "calculate_summary_stats") =>
        /\ DOMAIN ret.summaries = {ret.results[i].provider : i \in 1..Len(ret.results)}
        /\ \A p \in DOMAIN ret.summaries :
              LET mine == {i \in 1..Len(ret.results) : ret.results[i].provider = p}
                  ok == {i \in mine : ret.results[i].success}
                  sm == ret.summaries[p]
              IN  /\ sm.total_tests = Cardinality(mine)
                  /\ IsMeanOf(sm.success_rate, Cardinality(ok) * 100, Cardinality(mine))
                  /\ sm.total_errors = Cardinality(mine) - Cardinality(ok)
                  /\ \A i \in mine \ ok :
                        \E k \in DOMAIN sm.error_types :
                            IsPrefixBeforeColon(k, ret.results[i].error_message)
                  /\ \A k \in DOMAIN sm.error_types :
                        sm.error_types[k] =
                            Cardinality({i \in mine \ ok :
                                IsPrefixBeforeColon(k, ret.results[i].error_message)})
                  /\ \A k \in DOMAIN sm.error_types : sm.error_types[k] > 0
                  /\ SumCounts(sm.error_types, DOMAIN sm.error_types) = sm.total_errors
                  /\ (/\ Cardinality(mine) = 10
                      /\ Cardinality(ok) = 8
                      /\ \E i \in mine \ ok, j \in mine \ ok :
                            \A k \in DOMAIN sm.error_types :
                                ~(/\ IsPrefixBeforeColon(k, ret.results[i].error_message)
                                  /\ IsPrefixBeforeColon(k, ret.results[j].error_message)))
                     => /\ sm.success_rate = 80 * Scale
                        /\ sm.total_errors = 2
                        /\ Cardinality(DOMAIN sm.error_types) = 2

C23_Witness ==
    /\ ret.op = "calculate_summary_stats"
    /\ Len(ret.results) = 10
    /\ ret.summaries["murf"].success_rate = 80 * Scale
    /\ DOMAIN ret.summaries["murf"].error_types = {<<"Error">>, <<"API Error 500">>}

\* rows is the beginning of rows2
IsPrefix(rows, rows2) ==
    /\ Len(rows) <= Len(rows2)
    /\ \A i \in 1..Len(rows) : rows2[i] = rows[i]

\* a trial row saved more than days_old days ago; a row's timestamp is the
\* local time of its saving
OlderThan(r, days_old) == now - (r.timestamp - utc_offset) > days_old * TicksPerDay

\* C24: save_benchmark_result and save_user_vote each add exactly one row
\* and leave the rows there were as they are; no operation removes or
\* changes a user_votes row; an operation other than clear_old_data removes
\* or changes no trial row; and clear_old_data(days_old) removes exactly the
\* trial rows saved more than days_old days ago.
C24_AppendOnly ==
    [][/\ ret'.op = "save_benchmark_result" =>
              /\ Len(benchmark_results') = Len(benchmark_results) + 1
              /\ IsPrefix(benchmark_results, benchmark_results')
       /\ ret'.op = "save_user_vote" =>
              /\ Len(user_votes') = Len(user_votes) + 1
              /\ IsPrefix(user_votes, user_votes')
       /\ IsPrefix(user_votes, user_votes')
       /\ ret'.op # "clear_old_data" => IsPrefix(benchmark_results, benchmark_results')
       /\ ret'.op = "clear_old_data" =>
              benchmark_results' =
                  SelectSeq(benchmark_results, LAMBDA r : ~OlderThan(r, ret'.days_old))]_vars

\* C25: the batch issues no store update whose winner and loser are the
\* same provider, whatever results it is given, several successful results
\* of one provider for one sample_id included; so no provider's row has been
\* updated by a comparison with itself.
C25_NoSelfComparison ==
    /\ (ret.op = "engine_update_elo_ratings") =>
           \A i \in 1..Len(ret.issued) : ret.issued[i].winner # ret.issued[i].loser
    /\ \A p \in Providers : applied[p][p] = 0

\* the calls that have returned in which p was the winner, and the loser
DoneAsWinner(p) == {c \in CallIds : calls[c].pc = "done" /\ calls[c].winner = p}
DoneAsLoser(p) == {c \in CallIds : calls[c].pc = "done" /\ calls[c].loser = p}

\* a counter of a row of the table the calls started from
Counter0(p, field) == IF store0[p].exists THEN store0[p][field] ELSE 0

\* C26: however update_elo_ratings calls interleave, a provider that was the
\* winner of w and the loser of l of the calls that have returned has
\* games_played risen by w + l, wins by w and losses by l.
C26_NoLostIncrement ==
    \A p \in Providers :
        LET w == Cardinality(DoneAsWinner(p))
            l == Cardinality(DoneAsLoser(p))
        IN  IF elo_ratings[p].exists
            THEN /\ elo_ratings[p].games_played = Counter0(p, "games_played") + w + l
                 /\ elo_ratings[p].wins = Counter0(p, "wins") + w
                 /\ elo_ratings[p].losses = Counter0(p, "losses") + l
            ELSE w + l = 0

\* two calls won by one provider have returned, interleaved so that no
\* serial order gives the ratings they left
C26_Witness ==
    /\ AllDone
    /\ \E p \in Providers : Cardinality(DoneAsWinner(p)) = 2 /\ DoneAsLoser(p) = {}
    /\ \A order \in Permutations(CallIds) : elo_ratings # SerialTable(store0, order, 1)

\* a call commits in this step
Commits(c) == calls[c].pc # "done" /\ calls'[c].pc = "done"

\* C27: the stored rating and counters of a row change only in the step
\* that commits an update_elo_ratings call, and that step writes the
\* winner's and the loser's row together; so a call that raises after its
\* winner's UPDATE and before its commit has changed neither.
C27_BothOrNeither ==
    [][/\ (\A c \in CallIds : ~Commits(c)) =>
              \A p \in Providers : elo_ratings[p].exists => elo_ratings'[p] = elo_ratings[p]
       /\ \A c \in CallIds :
              Commits(c) =>
                  /\ elo_ratings'[calls[c].winner].wins = elo_ratings[calls[c].winner].wins + 1
                  /\ elo_ratings'[calls[c].loser].losses = elo_ratings[calls[c].loser].losses + 1
       /\ \A c \in CallIds :
              (calls'[c].pc = "raised" /\ calls[c].pc # "raised") => elo_ratings' = elo_ratings]_vars

\* a call has raised between its two UPDATEs, after another one committed
C27_Witness ==
    \E c \in CallIds :
        /\ calls[c].pc = "raised"
        /\ calls[c].pending.open
        /\ calls[c].pending.table[calls[c].winner].wins = elo_ratings[calls[c].winner].wins + 1
        /\ calls[c].pending.table[calls[c].loser] = elo_ratings[calls[c].loser]
        /\ \E d \in CallIds : calls[d].pc = "done"

\* C28: update_elo_ratings(winner, loser) leaves the row of every provider
\* other than winner and loser as it was (rating, games_played, wins and
\* losses), and creates no row for any of them.
C28_OthersUntouched ==
    [][ret'.op = "update_elo_ratings" =>
          \A p \in ProviderIds \ {ret'.winner, ret'.loser} : elo_ratings'[p] = elo_ratings[p]]_vars

C28_Witness ==
    /\ ret.op = "update_elo_ratings"
    /\ ret.winner # ret.loser
    /\ \E p \in Providers \ {ret.winner, ret.loser} :
          elo_ratings[p].exists /\ elo_ratings[p].games_played = 1

\* C29: while blind_test_voted stays set and the sample set stays the same
\* (no new set was generated and Start New Blind Test was not pressed), no
\* vote submission is processed, no rating row is changed and no user_votes
\* row is added.
C29_OneSubmissionPerSet ==
    [][(/\ blind_test_voted
        /\ blind_test_voted'
        /\ blind_test_samples' = blind_test_samples)
          => /\ ret'.op # "submit_vote"
             /\ \A p \in ProviderIds : elo_ratings[p].exists => elo_ratings'[p] = elo_ratings[p]
             /\ user_votes' = user_votes]_vars

\* a vote on a set of two samples has been submitted
C29_Witness ==
    /\ ret.op = "submit_vote"
    /\ blind_test_voted
    /\ Len(blind_test_samples) = 2
    /\ st_errors > 0

RECURSIVE AcceptedIn(_, _, _)
\* the requests of identifier i accepted at the times in S
AcceptedIn(acc, i, S) ==
    IF S = {} THEN 0
    ELSE LET t == CHOOSE x \in S : TRUE IN acc[i][t] + AcceptedIn(acc, i, S \ {t})

\* C30: for every identifier, the requests accepted in any time_window
\* seconds [t0, t0 + time_window) are at most max_requests; a request is
\* accepted exactly when fewer than max_requests requests of its identifier
\* were accepted less than time_window seconds before it; a denied request
\* is recorded nowhere; and a request changes nothing of another identifier.
C30_RateLimit ==
    [][/\ \A i \in Identifiers, t0 \in Times :
              AcceptedIn(accepted', i, {t \in Times : t0 <= t /\ t < t0 + rate_limiter'.time_window})
                  <= rate_limiter'.max_requests
       /\ ret'.op = "is_allowed" =>
              LET i == ret'.identifier
                  inside == AcceptedIn(accepted, i,
                                {t \in Times : t <= clock /\ clock - t < rate_limiter.time_window})
              IN  /\ ret'.allowed <=> inside < rate_limiter.max_requests
                  /\ ~ret'.allowed =>
                        /\ accepted' = accepted
                        /\ Len(rate_limiter'.requests[i]) <= Len(rate_limiter.requests[i])
                        /\ \A k \in 1..Len(rate_limiter'.requests[i]) :
                              \E j \in 1..Len(rate_limiter.requests[i]) :
                                  rate_limiter'.requests[i][k] = rate_limiter.requests[i][j]
                  /\ \A j \in Identifiers \ {i} :
                        rate_limiter'.requests[j] = rate_limiter.requests[j]]_vars

\* an identifier that reached its limit is accepted again, a window later
C30_Witness ==
    /\ ret.op = "is_allowed"
    /\ ret.allowed
    /\ rate_limiter.max_requests = 2
    /\ rate_limiter.time_window = 2
    /\ AcceptedIn(accepted, ret.identifier, Times) = 3
    /\ Len(rate_limiter.requests[ret.identifier]) = 1

====
